---- MODULE Spec2Model ----
(***************************************************************************)
(* Event-sourced part lifecycle engine: the in-memory and file-backed      *)
(* project event stores and the part lifecycle state machine.              *)
(***************************************************************************)
EXTENDS Integers, Sequences, FiniteSets, TLC

VARIABLES
    byProject,   \* InMemoryProjectEventStore.byProject: projectId -> event list
    memRes,      \* the last call made on the in-memory store and its outcome
    wpc,         \* per writer: "idle", "read" (holds a version), "done"
    wproj,       \* per writer: the project it works on
    wver,        \* per writer: the version it read
    wevents,     \* per writer: the events it passed to append
    wout,        \* per writer: the outcome of its append
    stream,      \* the event list a caller of the lifecycle functions holds
    lifeRes,     \* the last lifecycle call and what it returned or threw
    eventsFile,  \* FileProjectEventStore: <id>.events.ndjson, by file id
    snapFile,    \* FileProjectEventStore: <id>.events.snapshot.json, by file id
    fileRes,     \* the last call made on the file store and its outcome
    cmdRes,      \* the last command request handled and its response
    stateRes,    \* the last computePartState / isAtOrPastCutoff call and its result
    projRes,     \* the last projection call (events, now, timezone) and its result
    dashRes,     \* the last projectDashboardState call (parts, events, now) and its items
    progRes,     \* the last pace / progress call (snapshot, events) and its result
    treeRes,     \* the last validateProjectSnapshot call and whether it threw
    calRes,      \* the last calendar call (dates, days, calendar) and its result
    app,         \* FileProjectEventStore: the append call in flight, by its position
    comp,        \* FileProjectEventStore: the compact call in flight, by its position
    tmpFile,     \* FileProjectEventStore: <id>.events.snapshot.json.tmp of the project
    hc,          \* FileProjectEventStore: the hasCommand calls answered so far
    req          \* per request in flight: its position, what it read, its response

memVars  == <<byProject, memRes>>
raceVars == <<wpc, wproj, wver, wevents, wout>>
lifeVars == <<stream, lifeRes>>
fileVars == <<eventsFile, snapFile, fileRes>>
cmdVars  == <<cmdRes>>
stateVars == <<stateRes>>
projVars  == <<projRes>>
pureVars  == <<dashRes, progRes, treeRes, calRes>>
stepVars  == <<app, comp, tmpFile, hc>>
reqVars   == <<req>>
vars     == <<byProject, memRes, wpc, wproj, wver, wevents, wout, stream, lifeRes,
              eventsFile, snapFile, fileRes, cmdRes, stateRes, projRes,
              dashRes, progRes, treeRes, calRes, app, comp, tmpFile, hc, req>>

----------------------------------------------------------------------------
(* Bounds *)

MaxLog     == 2    \* longest project log the model grows
MaxAppend  == 2    \* longest events list passed to one append
MaxStream  == 2    \* longest event list handed to a lifecycle function
WindowLen  == 9    \* number of consecutive dates the instants are taken from
MaxProjStream == 3 \* longest event list handed to a projection
MaxParts   == 3    \* longest list of parts handed to projectDashboardState
MaxPaceEvents == 2 \* longest event list handed to projectPartPace
MaxDays    == 3    \* largest number of working days added to a date
MaxLoopSteps == 4  \* iterations of one loop the model follows

----------------------------------------------------------------------------
(* Values *)

Projects == {"proj1", "proj2"}
Parts    == {"p1", "p2"}
Writers  == {"w1", "w2", "w3"}

CommandIds == {"c1", "c2"}

NoCommand == "none"
NoDate    == "none"
NoPart    == "none"

Ev(type, partId, timestamp, version, commandId) ==
    [type |-> type, partId |-> partId, timestamp |-> timestamp,
     version |-> version, commandId |-> commandId, notificationDate |-> NoDate]

\* Events callers hand to the store; the version field is whatever the
\* caller put there (the lifecycle functions put 0).
EventPool ==
    { Ev("PartApproved", "p1", 1000, 0, NoCommand),
      Ev("PartReopened", "p2", 1001, 7, "c1") }

RECURSIVE SeqsUpTo(_, _)
SeqsUpTo(S, n) ==
    IF n = 0 THEN { <<>> }
    ELSE LET shorter == SeqsUpTo(S, n - 1)
         IN  shorter \cup { Append(s, x) : s \in { t \in shorter : Len(t) = n - 1 }, x \in S }

EventLists == SeqsUpTo(EventPool, MaxAppend)

IsPrefix(s, t) == Len(s) <= Len(t) /\ SubSeq(t, 1, Len(s)) = s

----------------------------------------------------------------------------
(* InMemoryProjectEventStore *)

\* A slip in the version arithmetic: base + index, without the + 1.
withVersion_OffByOne(events, base) ==
    [i \in 1..Len(events) |-> [events[i] EXCEPT !.version = base + i - 1]]

\* events.map((e, index) => ({ ...e, version: base + index + 1 })); the
\* sequence index here is the 0-based array index plus one.
withVersion(events, base) ==
    [i \in 1..Len(events) |-> [events[i] EXCEPT !.version = base + i]]

\* A slip: the empty-list shortcut taken before the version check.
MemAppend_EmptyFirst(list, expectedVersion, events) ==
    LET currentVersion == Len(list)
    IN  IF Len(events) = 0
        THEN [outcome |-> "ok", list |-> list]
        ELSE IF currentVersion # expectedVersion
        THEN [outcome |-> "ConcurrencyError", list |-> list]
        ELSE [outcome |-> "ok", list |-> list \o withVersion(events, currentVersion)]

\* A slip: only a version ahead of the log is rejected, a stale one is accepted.
MemAppend_StaleOk(list, expectedVersion, events) ==
    LET currentVersion == Len(list)
    IN  IF currentVersion < expectedVersion
        THEN [outcome |-> "ConcurrencyError", list |-> list]
        ELSE IF Len(events) = 0
        THEN [outcome |-> "ok", list |-> list]
        ELSE [outcome |-> "ok", list |-> list \o withVersion(events, currentVersion)]

\* A slip: the new events put in front of the stored ones.
MemAppend_Prepend(list, expectedVersion, events) ==
    LET currentVersion == Len(list)
    IN  IF currentVersion # expectedVersion
        THEN [outcome |-> "ConcurrencyError", list |-> list]
        ELSE IF Len(events) = 0
        THEN [outcome |-> "ok", list |-> list]
        ELSE [outcome |-> "ok", list |-> withVersion(events, currentVersion) \o list]

\* append: the outcome and the project's list after the call.
MemAppend(list, expectedVersion, events) ==
    LET currentVersion == Len(list)
    IN  IF currentVersion # expectedVersion
        THEN [outcome |-> "ConcurrencyError", list |-> list]
        ELSE IF Len(events) = 0
        THEN [outcome |-> "ok", list |-> list]
        ELSE [outcome |-> "ok", list |-> list \o withVersion(events, currentVersion)]

MemLoadByProject(projectId) == byProject[projectId]

MemLoadByPart(projectId, partId) ==
    SelectSeq(byProject[projectId], LAMBDA e : e.partId = partId)

\* A slip: only the last event of the log is looked at.
MemHasCommand_LastOnly(projectId, commandId) ==
    /\ Len(byProject[projectId]) > 0
    /\ byProject[projectId][Len(byProject[projectId])].commandId = commandId

MemHasCommand(projectId, commandId) ==
    \E i \in 1..Len(byProject[projectId]) : byProject[projectId][i].commandId = commandId

NoCall ==
    [op |-> "none", projectId |-> "none", partId |-> NoPart, expectedVersion |-> 0,
     events |-> <<>>, outcome |-> "none", before |-> <<>>, result |-> <<>>,
     commandId |-> NoCommand, found |-> FALSE]

Append_(projectId, expectedVersion, events) ==
    LET r == MemAppend(byProject[projectId], expectedVersion, events)
    IN  /\ Len(r.list) <= MaxLog
        /\ byProject' = [byProject EXCEPT ![projectId] = r.list]
        /\ memRes' = [NoCall EXCEPT !.op = "append", !.projectId = projectId,
                                    !.expectedVersion = expectedVersion,
                                    !.events = events, !.outcome = r.outcome,
                                    !.before = byProject[projectId]]

MemAppendCall ==
    /\ \E projectId \in Projects, expectedVersion \in 0..(MaxLog + 1), events \in EventLists :
           Append_(projectId, expectedVersion, events)
    /\ UNCHANGED <<raceVars, lifeVars, fileVars, cmdVars, stateVars, projVars, pureVars, stepVars, reqVars>>

MemLoadByProjectCall ==
    /\ \E projectId \in Projects :
           memRes' = [NoCall EXCEPT !.op = "loadByProject", !.projectId = projectId,
                                    !.outcome = "ok", !.before = byProject[projectId],
                                    !.result = MemLoadByProject(projectId)]
    /\ UNCHANGED <<byProject, raceVars, lifeVars, fileVars, cmdVars, stateVars, projVars, pureVars, stepVars, reqVars>>

MemLoadByPartCall ==
    /\ \E projectId \in Projects, partId \in Parts :
           memRes' = [NoCall EXCEPT !.op = "loadByPart", !.projectId = projectId,
                                    !.partId = partId,
                                    !.outcome = "ok", !.before = byProject[projectId],
                                    !.result = MemLoadByPart(projectId, partId)]
    /\ UNCHANGED <<byProject, raceVars, lifeVars, fileVars, cmdVars, stateVars, projVars, pureVars, stepVars, reqVars>>

MemHasCommandCall ==
    /\ \E projectId \in Projects, commandId \in CommandIds :
           memRes' = [NoCall EXCEPT !.op = "hasCommand", !.projectId = projectId,
                                    !.commandId = commandId,
                                    !.outcome = "ok", !.before = byProject[projectId],
                                    !.found = MemHasCommand(projectId, commandId)]
    /\ UNCHANGED <<byProject, raceVars, lifeVars, fileVars, cmdVars, stateVars, projVars, pureVars, stepVars, reqVars>>

\* compact is a no-op for the in-memory store.
MemCompactCall ==
    /\ \E projectId \in Projects :
           memRes' = [NoCall EXCEPT !.op = "compact", !.projectId = projectId,
                                    !.outcome = "ok", !.before = byProject[projectId]]
    /\ UNCHANGED <<byProject, raceVars, lifeVars, fileVars, cmdVars, stateVars, projVars, pureVars, stepVars, reqVars>>

----------------------------------------------------------------------------
(* Writers: read the project's version, then append with it *)

WriterRead(w) ==
    /\ wpc[w] = "idle"
    /\ \E projectId \in Projects :
          /\ wproj' = [wproj EXCEPT ![w] = projectId]
          /\ wver' = [wver EXCEPT ![w] = Len(MemLoadByProject(projectId))]
    /\ wpc' = [wpc EXCEPT ![w] = "read"]
    /\ UNCHANGED <<byProject, memRes, wevents, wout, lifeVars, fileVars, cmdVars, stateVars, projVars, pureVars, stepVars, reqVars>>

WriterAppend(w) ==
    /\ wpc[w] = "read"
    /\ \E events \in EventLists :
          /\ Append_(wproj[w], wver[w], events)
          /\ wevents' = [wevents EXCEPT ![w] = events]
          /\ wout' = [wout EXCEPT ![w] = memRes'.outcome]
    /\ wpc' = [wpc EXCEPT ![w] = "done"]
    /\ UNCHANGED <<wproj, wver, lifeVars, fileVars, cmdVars, stateVars, projVars, pureVars, stepVars, reqVars>>

----------------------------------------------------------------------------
(* Part lifecycle state machine (partLifecycle.ts) *)

Times             == {1000, 1001}
NotificationDates == {"2025-02-25"}

VALID_APPROVE  == <<"Planned", "Active">>
VALID_COMPLETE == <<"Planned", "Active">>
VALID_SNOOZE   == <<"Planned", "Active">>

\* A slip: reopen also allowed from Active.
VALID_REOPEN_WithActive == <<"Completed", "Approved", "Active">>

VALID_REOPEN   == <<"Completed", "Approved">>

LifeEv(type, partId, timestamp, notificationDate) ==
    [type |-> type, partId |-> partId, timestamp |-> timestamp,
     version |-> 0, commandId |-> NoCommand, notificationDate |-> notificationDate]

\* Array.prototype.sort with (a, b) => a.timestamp - b.timestamp: a stable
\* sort, computed here by insertion from the left.
RECURSIVE InsertByTimestamp(_, _)
InsertByTimestamp(sorted, e) ==
    IF sorted = <<>> THEN <<e>>
    ELSE IF sorted[Len(sorted)].timestamp - e.timestamp <= 0
         THEN Append(sorted, e)
         ELSE Append(InsertByTimestamp(SubSeq(sorted, 1, Len(sorted) - 1), e),
                     sorted[Len(sorted)])

RECURSIVE SortFrom(_, _)
SortFrom(sorted, rest) ==
    IF rest = <<>> THEN sorted
    ELSE SortFrom(InsertByTimestamp(sorted, Head(rest)), Tail(rest))

\* A slip: the sort left out, events replayed in sequence order.
SortByTimestamp_None(events) == events

SortByTimestamp(events) == SortFrom(<<>>, events)

\* A slip: the PartSnoozed case sets the state of the case above it.
LifecycleStep_SnoozeCompletes(state, e) ==
    CASE e.type = "PartApproved"  -> "Approved"
      [] e.type = "PartCompleted" -> "Completed"
      [] e.type = "PartReopened"  -> "Active"
      [] e.type = "PartSnoozed"   -> "Completed"
      [] OTHER                    -> state

\* The switch in the replay loop.
LifecycleStep(state, e) ==
    CASE e.type = "PartApproved"  -> "Approved"
      [] e.type = "PartCompleted" -> "Completed"
      [] e.type = "PartReopened"  -> "Active"
      [] e.type = "PartSnoozed"   -> "Active"
      [] OTHER                    -> state

RECURSIVE Replay(_, _)
Replay(state, partEvents) ==
    IF partEvents = <<>> THEN state
    ELSE Replay(LifecycleStep(state, Head(partEvents)), Tail(partEvents))

\* A slip: the normalisation made when the list, not the part, has an event.
projectLifecycleState_NormalizeOnAnyEvent(events, partId) ==
    LET partEvents == SortByTimestamp(SelectSeq(events, LAMBDA e : e.partId = partId))
        state      == Replay("Planned", partEvents)
    IN  IF state = "Planned" /\ Len(events) > 0 THEN "Active" ELSE state

projectLifecycleState(events, partId) ==
    LET partEvents == SortByTimestamp(SelectSeq(events, LAMBDA e : e.partId = partId))
        state      == Replay("Planned", partEvents)
    IN  IF state = "Planned" /\ Len(partEvents) > 0 THEN "Active" ELSE state

getPartLifecycleState(events, partId) == projectLifecycleState(events, partId)

Includes(valid, x) == \E i \in 1..Len(valid) : valid[i] = x

NoMetadata == [current |-> "none", valid |-> <<>>]

\* What a lifecycle call yields: a thrown error with its metadata, or a list.
Thrown(name, metadata) ==
    [outcome |-> name, metadata |-> metadata, hasReturn |-> FALSE, returned |-> <<>>]
Returned(list) ==
    [outcome |-> "ok", metadata |-> NoMetadata, hasReturn |-> TRUE, returned |-> list]

\* assertValidTransition: throws, or lets the caller go on (NoThrow).
NoThrow == [outcome |-> "ok", metadata |-> NoMetadata, hasReturn |-> FALSE, returned |-> <<>>]

assertValidTransition(current, valid, action) ==
    IF ~Includes(valid, current)
    THEN Thrown("InvariantViolation", [current |-> current, valid |-> valid])
    ELSE NoThrow

approvePart(events, partId, timestamp) ==
    LET current == projectLifecycleState(events, partId)
        check   == assertValidTransition(current, VALID_APPROVE, "approvePart")
    IN  IF check # NoThrow THEN check
        ELSE Returned(Append(events, LifeEv("PartApproved", partId, timestamp, NoDate)))

completePart(events, partId, timestamp) ==
    LET current == projectLifecycleState(events, partId)
        check   == assertValidTransition(current, VALID_COMPLETE, "completePart")
    IN  IF check # NoThrow THEN check
        ELSE Returned(Append(events, LifeEv("PartCompleted", partId, timestamp, NoDate)))

\* A slip: the notificationDate left out of the new event.
snoozePart_NoDate(events, partId, notificationDate, timestamp) ==
    LET current == projectLifecycleState(events, partId)
        check   == assertValidTransition(current, VALID_SNOOZE, "snoozePart")
    IN  IF check # NoThrow THEN check
        ELSE Returned(Append(events, LifeEv("PartSnoozed", partId, timestamp, NoDate)))

snoozePart(events, partId, notificationDate, timestamp) ==
    LET current == projectLifecycleState(events, partId)
        check   == assertValidTransition(current, VALID_SNOOZE, "snoozePart")
    IN  IF check # NoThrow THEN check
        ELSE Returned(Append(events, LifeEv("PartSnoozed", partId, timestamp, notificationDate)))

reopenPart(events, partId, timestamp) ==
    LET current == projectLifecycleState(events, partId)
        check   == assertValidTransition(current, VALID_REOPEN, "reopenPart")
    IN  IF check # NoThrow THEN check
        ELSE Returned(Append(events, LifeEv("PartReopened", partId, timestamp, NoDate)))

NoLifeCall ==
    [op |-> "none", partId |-> NoPart, timestamp |-> 0, notificationDate |-> NoDate,
     before |-> <<>>, outcome |-> "none", metadata |-> NoMetadata,
     hasReturn |-> FALSE, returned |-> <<>>, state |-> "none"]

\* A caller applies a transition function to the list it holds and, when the
\* call returns, goes on with the returned list.
LifeCall(op, partId, timestamp, notificationDate, r) ==
    /\ Len(stream) <= MaxStream
    /\ lifeRes' = [NoLifeCall EXCEPT !.op = op, !.partId = partId,
                                     !.timestamp = timestamp,
                                     !.notificationDate = notificationDate,
                                     !.before = stream, !.outcome = r.outcome,
                                     !.metadata = r.metadata,
                                     !.hasReturn = r.hasReturn,
                                     !.returned = r.returned]
    /\ stream' = IF r.hasReturn THEN r.returned ELSE stream
    /\ UNCHANGED <<memVars, raceVars, fileVars, cmdVars, stateVars, projVars, pureVars, stepVars, reqVars>>

ApprovePartCall ==
    \E partId \in Parts, timestamp \in Times :
        LifeCall("approvePart", partId, timestamp, NoDate,
                 approvePart(stream, partId, timestamp))

CompletePartCall ==
    \E partId \in Parts, timestamp \in Times :
        LifeCall("completePart", partId, timestamp, NoDate,
                 completePart(stream, partId, timestamp))

SnoozePartCall ==
    \E partId \in Parts, timestamp \in Times, notificationDate \in NotificationDates :
        LifeCall("snoozePart", partId, timestamp, notificationDate,
                 snoozePart(stream, partId, notificationDate, timestamp))

ReopenPartCall ==
    \E partId \in Parts, timestamp \in Times :
        LifeCall("reopenPart", partId, timestamp, NoDate,
                 reopenPart(stream, partId, timestamp))

GetPartLifecycleStateCall ==
    /\ \E partId \in Parts :
          lifeRes' = [NoLifeCall EXCEPT !.op = "getPartLifecycleState",
                                        !.partId = partId, !.before = stream,
                                        !.outcome = "ok",
                                        !.state = getPartLifecycleState(stream, partId)]
    /\ UNCHANGED <<stream, memVars, raceVars, fileVars, cmdVars, stateVars, projVars, pureVars, stepVars, reqVars>>

\* The event lists a caller may start from: any list of lifecycle events.
LifeEventPool ==
    { LifeEv(type, "p1", t, NoDate) :
          type \in {"PartApproved", "PartCompleted", "PartReopened"}, t \in Times }
    \cup { LifeEv("PartSnoozed", "p1", t, d) : t \in Times, d \in NotificationDates }
    \cup { LifeEv("PartApproved", "p2", 1000, NoDate) }

----------------------------------------------------------------------------
(* Dates (calendar.ts). A DateKey "YYYY-MM-DD" is the number YYYYMMDD, which *)
(* orders as the strings do; an instant is in seconds since the epoch (the   *)
(* code's milliseconds, without the part below a second that no field reads).*)

\* A date that is absent (undefined), as the notificationDate of a part
\* that has none.
NoDateKey == 0

parseDateKey(date) ==
    [y |-> date \div 10000, m |-> (date \div 100) % 100, d |-> date % 100]

formatDateKey(y, m, d) == y * 10000 + m * 100 + d

\* Date.UTC(y, m - 1, d) in days since 1970-01-01 (a day number past the end
\* of the month rolls over into the next one, as in Date.UTC).
DateUTC(y, m, d) ==
    LET yy  == IF m <= 2 THEN y - 1 ELSE y
        era == yy \div 400
        yoe == yy - era * 400
        mp  == IF m > 2 THEN m - 3 ELSE m + 9
        doy == (153 * mp + 2) \div 5 + d - 1
        doe == yoe * 365 + yoe \div 4 - yoe \div 100 + doy
    IN  era * 146097 + doe - 719468

\* getUTCFullYear / getUTCMonth + 1 / getUTCDate of a day number, as a DateKey.
toKeyUTC(days) ==
    LET z   == days + 719468
        era == z \div 146097
        doe == z - era * 146097
        yoe == (doe - doe \div 1460 + doe \div 36524 - doe \div 146096) \div 365
        doy == doe - (365 * yoe + yoe \div 4 - yoe \div 100)
        mp  == (5 * doy + 2) \div 153
        d   == doy - (153 * mp + 2) \div 5 + 1
        m   == IF mp < 10 THEN mp + 3 ELSE mp - 9
        y   == yoe + era * 400 + (IF m <= 2 THEN 1 ELSE 0)
    IN  formatDateKey(y, m, d)

nextDay(date) ==
    LET p == parseDateKey(date)
    IN  toKeyUTC(DateUTC(p.y, p.m, p.d) + 1)

\* The zones of the model and their offsets from UTC, in seconds, in the
\* second half of April 2025 (Intl.DateTimeFormat with timeZone).
Timezones == {"UTC", "Europe/Stockholm", "America/New_York"}

\* The zones a project calendar is given in the calendar calls.
CalendarTimezones == {"Europe/Stockholm", "Pacific/Auckland"}

TzOffset(timezone) ==
    CASE timezone = "UTC"              -> 0
      [] timezone = "Europe/Stockholm" -> 7200
      [] timezone = "America/New_York" -> 0 - 14400
      [] timezone = "Pacific/Auckland" -> 43200

\* Atlantic/Azores leaves summer time on 2025-10-26 at 01:00:00 UTC: the local
\* clock goes from 01:00 (UTC+0) back to 00:00 (UTC-1), so the local minute
\* 00:00 of that date comes twice.
AzoresFallBack == DateUTC(2025, 10, 26) * 86400 + 3600

\* The offset Intl.DateTimeFormat applies to the instant in the zone.
TzOffsetAt(timezone, ts) ==
    IF timezone = "Atlantic/Azores"
    THEN (IF ts < AzoresFallBack THEN 0 ELSE 0 - 3600)
    ELSE TzOffset(timezone)

\* 0 = Sunday .. 6 = Saturday of the day number (1970-01-01 was a Thursday).
weekdayOfDays(days) == (days + 4) % 7

\* weekdayOf: the weekday, in the zone, of noon UTC on the date.
weekdayOf(date, timezone) ==
    LET p     == parseDateKey(date)
        local == DateUTC(p.y, p.m, p.d) * 86400 + 43200 + TzOffset(timezone)
    IN  weekdayOfDays(local \div 86400)

weekdayUTC(y, m, d) == weekdayOfDays(DateUTC(y, m, d))

saturdayBetweenUTC(y, m, d1, d2) ==
    LET d == CHOOSE x \in d1..d2 :
                 /\ weekdayUTC(y, m, x) = 6
                 /\ \A w \in d1..(x - 1) : weekdayUTC(y, m, w) # 6
    IN  toKeyUTC(DateUTC(y, m, d))

\* Meeus/Jones/Butcher; the result is a day number.
easterSundayUTC(year) ==
    LET a == year % 19
        b == year \div 100
        c == year % 100
        d == b \div 4
        e == b % 4
        f == (b + 8) \div 25
        g == (b - f + 1) \div 3
        h == (19 * a + b - d - g + 15) % 30
        i == c \div 4
        k == c % 4
        l == (32 + 2 * e + 2 * i - h - k) % 7
        m == (a + 11 * h + 22 * l) \div 451
        month == (h + l - 7 * m + 114) \div 31
        day   == ((h + l - 7 * m + 114) % 31) + 1
    IN  DateUTC(year, month, day)

swedishHolidays(year) ==
    LET easter == easterSundayUTC(year)
    IN  { formatDateKey(year, 1, 1), formatDateKey(year, 1, 6), formatDateKey(year, 5, 1),
          formatDateKey(year, 6, 6), formatDateKey(year, 12, 25), formatDateKey(year, 12, 26) }
        \cup { toKeyUTC(easter + offset) : offset \in {0 - 2, 0, 1, 39, 49} }
        \cup { saturdayBetweenUTC(year, 6, 20, 26) }
        \cup (IF weekdayUTC(year, 10, 31) = 6 THEN { formatDateKey(year, 10, 31) } ELSE {})
        \cup { formatDateKey(year, 11, d) : d \in { x \in 1..6 : weekdayUTC(year, 11, x) = 6 } }

\* A calendar: [timezone, weekendDays (a set of weekdays), overrides (a list of
\* [date, isWorkingDay])]. overridesIndex keeps the last override of a date.
HasOverride(overrides, date) == \E i \in 1..Len(overrides) : overrides[i].date = date

overridesIndex(overrides, date) ==
    overrides[CHOOSE i \in 1..Len(overrides) :
                  /\ overrides[i].date = date
                  /\ \A j \in (i + 1)..Len(overrides) : overrides[j].date # date]

\* A slip: the holiday test left out.
isWorkingDay_NoHolidays(date, cal) ==
    IF HasOverride(cal.overrides, date)
    THEN overridesIndex(cal.overrides, date).isWorkingDay
    ELSE weekdayOf(date, cal.timezone) \notin cal.weekendDays

isWorkingDay(date, cal) ==
    IF HasOverride(cal.overrides, date)
    THEN overridesIndex(cal.overrides, date).isWorkingDay
    ELSE IF date \in swedishHolidays(parseDateKey(date).y) THEN FALSE
    ELSE weekdayOf(date, cal.timezone) \notin cal.weekendDays

\* A slip: every day counted, working or not.
RECURSIVE addWorkingDays_EveryDay(_, _, _)
addWorkingDays_EveryDay(start, days, cal) ==
    IF days <= 0 THEN start
    ELSE addWorkingDays_EveryDay(nextDay(start), days - 1, cal)

\* The loop of addWorkingDays (days >= 0; a negative days throws).
RECURSIVE addWorkingDays(_, _, _)
addWorkingDays(start, days, cal) ==
    IF days <= 0 THEN start
    ELSE LET cur == nextDay(start)
         IN  addWorkingDays(cur, IF isWorkingDay(cur, cal) THEN days - 1 ELSE days, cal)

\* The forward loop of diffWorkingDays: the working days from cur up to, not
\* including, endExclusive.
RECURSIVE CountWorkingDays(_, _, _)
CountWorkingDays(cur, endExclusive, cal) ==
    IF cur = endExclusive THEN 0
    ELSE (IF isWorkingDay(cur, cal) THEN 1 ELSE 0)
         + CountWorkingDays(nextDay(cur), endExclusive, cal)

\* A slip: the backward count not negated.
diffWorkingDays_Unsigned(start, endExclusive, cal) ==
    IF start = endExclusive THEN 0
    ELSE IF start < endExclusive THEN CountWorkingDays(start, endExclusive, cal)
    ELSE CountWorkingDays(endExclusive, start, cal)

diffWorkingDays(start, endExclusive, cal) ==
    IF start = endExclusive THEN 0
    ELSE IF start < endExclusive THEN CountWorkingDays(start, endExclusive, cal)
    ELSE 0 - CountWorkingDays(endExclusive, start, cal)

\* addWorkingDays as called: a negative days throws, else the loop runs.
addWorkingDaysOutcome(start, days, cal) ==
    IF days < 0 THEN [outcome |-> "Error", message |-> "days must be >= 0", date |-> NoDateKey]
    ELSE [outcome |-> "ok", message |-> "none", date |-> addWorkingDays(start, days, cal)]

\* The loop of nextWorkingDay: the date itself if it is a working day.
RECURSIVE nextWorkingDay(_, _)
nextWorkingDay(date, cal) ==
    IF isWorkingDay(date, cal) THEN date ELSE nextWorkingDay(nextDay(date), cal)

defaultSwedishProjectCalendar(overrides) ==
    [timezone |-> "Europe/Stockholm", weekendDays |-> {0, 6}, overrides |-> overrides]

----------------------------------------------------------------------------
(* Part state (partState.ts) *)

\* formatToParts of the instant in the zone: the local date, hour and minute.
getDateAndTimeInTz(ts, timezone) ==
    LET local == ts + TzOffsetAt(timezone, ts)
        secs  == local % 86400
        hour  == secs \div 3600
    IN  [date   |-> toKeyUTC(local \div 86400),
         hour   |-> IF hour = 24 THEN 0 ELSE hour,
         minute |-> (secs % 3600) \div 60]

\* A slip: the cutoff put at midnight.
isAtOrPastCutoff_Midnight(now, dateOnly, timezone) ==
    LET t == getDateAndTimeInTz(now, timezone)
    IN  IF t.date > dateOnly THEN TRUE
        ELSE IF t.date < dateOnly THEN FALSE
        ELSE t.hour > 0 \/ t.minute >= 0

isAtOrPastCutoff(now, dateOnly, timezone) ==
    LET t == getDateAndTimeInTz(now, timezone)
    IN  IF t.date > dateOnly THEN TRUE
        ELSE IF t.date < dateOnly THEN FALSE
        ELSE t.hour > 0 \/ t.minute >= 1

\* A slip: the snooze test made before the NotDue test.
computePartState_SnoozeFirst(inputs, calendar) ==
    IF inputs.approved THEN "Approved"
    ELSE IF inputs.notificationDate # NoDateKey
            /\ ~isAtOrPastCutoff(inputs.now, inputs.notificationDate, inputs.timezone)
    THEN "Snoozed"
    ELSE IF ~isAtOrPastCutoff(inputs.now, inputs.endDate, inputs.timezone) THEN "NotDue"
    ELSE IF isAtOrPastCutoff(inputs.now, addWorkingDays(inputs.endDate, 1, calendar),
                             inputs.timezone)
    THEN "Overdue"
    ELSE "Due"

computePartState(inputs, calendar) ==
    IF inputs.approved THEN "Approved"
    ELSE IF ~isAtOrPastCutoff(inputs.now, inputs.endDate, inputs.timezone) THEN "NotDue"
    ELSE IF inputs.notificationDate # NoDateKey
            /\ ~isAtOrPastCutoff(inputs.now, inputs.notificationDate, inputs.timezone)
    THEN "Snoozed"
    ELSE IF isAtOrPastCutoff(inputs.now, addWorkingDays(inputs.endDate, 1, calendar),
                             inputs.timezone)
    THEN "Overdue"
    ELSE "Due"

\* A slip: approved parts kept in the task list.
isInTasks_WithApproved(state) == state # "NotDue"

isInTasks(state) == state = "Due" \/ state = "Overdue" \/ state = "Snoozed"

\* The inputs of the calls: the dates of the window (from Wednesday
\* 2025-04-16, across Good Friday 04-18, the weekend, Easter Monday 04-21),
\* and the instants 00:00:00, 00:00:59, 00:01:00 and 12:00:00 of each date
\* in each zone.
WindowDates == { toKeyUTC(DateUTC(2025, 4, 16) + i) : i \in 0..(WindowLen - 1) }

Instants ==
    { DateUTC(parseDateKey(d).y, parseDateKey(d).m, parseDateKey(d).d) * 86400
          + t - TzOffset(z) :
      d \in WindowDates, t \in {0, 59, 60, 43200}, z \in Timezones }

EndDates == {20250417, 20250422}

StateNotificationDates == {NoDateKey, 20250416, 20250420, 20250424}

Calendars ==
    { defaultSwedishProjectCalendar(<<>>),
      defaultSwedishProjectCalendar(<<[date |-> 20250422, isWorkingDay |-> FALSE]>>),
      defaultSwedishProjectCalendar(<<[date |-> 20250419, isWorkingDay |-> TRUE]>>) }

PartStateInputs ==
    [endDate : EndDates, approved : BOOLEAN, notificationDate : StateNotificationDates,
     now : Instants, timezone : Timezones]

NoStateCall ==
    [op |-> "none",
     inputs |-> [endDate |-> NoDateKey, approved |-> FALSE, notificationDate |-> NoDateKey,
                 now |-> 0, timezone |-> "UTC"],
     calendar |-> defaultSwedishProjectCalendar(<<>>),
     dateOnly |-> NoDateKey, state |-> "none", past |-> FALSE,
     later |-> 0, laterState |-> "none"]

\* One call of computePartState on inputs of the caller's choice.
ComputePartStateCall ==
    /\ stateRes.op = "none"
    /\ \E inputs \in PartStateInputs, calendar \in Calendars :
          stateRes' = [NoStateCall EXCEPT !.op = "computePartState",
                                          !.inputs = inputs, !.calendar = calendar,
                                          !.state = computePartState(inputs, calendar)]
    /\ UNCHANGED <<memVars, raceVars, lifeVars, fileVars, cmdVars, projVars, pureVars, stepVars, reqVars>>

\* The inputs of two calls that differ in now alone: the April window at 00:01
\* and 12:00 local time of each date in the fixed-offset zones, and the night
\* of 2025-10-26 in Atlantic/Azores (12:00 the day before, 00:30 summer time,
\* 00:00:30 and 01:00 standard time, 12:00 the day after).
OverTimeInstants(timezone) ==
    IF timezone = "Atlantic/Azores"
    THEN { AzoresFallBack + t : t \in {0 - 46800, 0 - 1800, 30, 3600, 126000} }
    ELSE { DateUTC(parseDateKey(d).y, parseDateKey(d).m, parseDateKey(d).d) * 86400
               + t - TzOffset(timezone) :
           d \in WindowDates, t \in {60, 43200} }

OverTimeInputs ==
    UNION { [endDate : EndDates, approved : BOOLEAN,
             notificationDate : StateNotificationDates,
             now : OverTimeInstants(z), timezone : {z}] : z \in Timezones }
    \cup [endDate : {20251025, 20251026}, approved : BOOLEAN,
          notificationDate : {NoDateKey, 20251026},
          now : OverTimeInstants("Atlantic/Azores"), timezone : {"Atlantic/Azores"}]

\* Two calls of computePartState on the same part, the second at a later
\* instant.
PartStateOverTimeCall ==
    /\ stateRes.op = "none"
    /\ \E inputs \in OverTimeInputs, calendar \in Calendars :
          \E later \in { t \in OverTimeInstants(inputs.timezone) : t > inputs.now } :
              stateRes' = [NoStateCall EXCEPT
                               !.op = "computePartState(later)",
                               !.inputs = inputs, !.calendar = calendar,
                               !.state = computePartState(inputs, calendar),
                               !.later = later,
                               !.laterState =
                                   computePartState([inputs EXCEPT !.now = later],
                                                    calendar)]
    /\ UNCHANGED <<memVars, raceVars, lifeVars, fileVars, cmdVars, projVars, pureVars, stepVars, reqVars>>

\* One call of isAtOrPastCutoff.
IsAtOrPastCutoffCall ==
    /\ stateRes.op = "none"
    /\ \E now \in Instants, dateOnly \in WindowDates, timezone \in Timezones :
          stateRes' = [NoStateCall EXCEPT !.op = "isAtOrPastCutoff",
                                          !.inputs.now = now,
                                          !.inputs.timezone = timezone,
                                          !.dateOnly = dateOnly,
                                          !.past = isAtOrPastCutoff(now, dateOnly, timezone)]
    /\ UNCHANGED <<memVars, raceVars, lifeVars, fileVars, cmdVars, projVars, pureVars, stepVars, reqVars>>

----------------------------------------------------------------------------
(* Calendar calls (calendar.ts) *)

\* The inputs of the calendar calls: the dates of the window, calendars in
\* either zone with the weekend on Saturday and Sunday or on Friday and
\* Saturday and with no override or one (a closed Tuesday, a working
\* Saturday, a working Good Friday), and day counts from -1 up.
CalOverrides ==
    { <<>>,
      <<[date |-> 20250422, isWorkingDay |-> FALSE]>>,
      <<[date |-> 20250419, isWorkingDay |-> TRUE]>>,
      <<[date |-> 20250418, isWorkingDay |-> TRUE]>> }

CalCalendars ==
    [timezone : CalendarTimezones, weekendDays : {{0, 6}, {5, 6}}, overrides : CalOverrides]

CalDayCounts == (0 - 1)..MaxDays

NoCalCall ==
    [op |-> "none", date |-> NoDateKey, other |-> NoDateKey, days |-> 0,
     calendar |-> defaultSwedishProjectCalendar(<<>>),
     working |-> FALSE, diff |-> 0,
     added |-> [outcome |-> "none", message |-> "none", date |-> NoDateKey],
     thrown |-> "none", cur |-> NoDateKey, target |-> NoDateKey,
     running |-> FALSE, steps |-> 0]

\* One call of isWorkingDay.
IsWorkingDayCall ==
    /\ calRes.op = "none"
    /\ \E date \in WindowDates, cal \in CalCalendars :
          calRes' = [NoCalCall EXCEPT !.op = "isWorkingDay", !.date = date,
                                      !.calendar = cal,
                                      !.working = isWorkingDay(date, cal)]
    /\ UNCHANGED <<memVars, raceVars, lifeVars, fileVars, cmdVars, stateVars, projVars,
                   dashRes, progRes, treeRes, stepVars, reqVars>>

\* One call of diffWorkingDays.
DiffWorkingDaysCall ==
    /\ calRes.op = "none"
    /\ \E start \in WindowDates, endExclusive \in WindowDates, cal \in CalCalendars :
          calRes' = [NoCalCall EXCEPT !.op = "diffWorkingDays", !.date = start,
                                      !.other = endExclusive, !.calendar = cal,
                                      !.diff = diffWorkingDays(start, endExclusive, cal)]
    /\ UNCHANGED <<memVars, raceVars, lifeVars, fileVars, cmdVars, stateVars, projVars,
                   dashRes, progRes, treeRes, stepVars, reqVars>>

\* One call of addWorkingDays.
AddWorkingDaysCall ==
    /\ calRes.op = "none"
    /\ \E start \in WindowDates, days \in CalDayCounts, cal \in CalCalendars :
          calRes' = [NoCalCall EXCEPT !.op = "addWorkingDays", !.date = start,
                                      !.days = days, !.calendar = cal,
                                      !.added = addWorkingDaysOutcome(start, days, cal)]
    /\ UNCHANGED <<memVars, raceVars, lifeVars, fileVars, cmdVars, stateVars, projVars,
                   dashRes, progRes, treeRes, stepVars, reqVars>>

\* diffWorkingDays(start, addWorkingDays(start, days, cal), cal), days >= 0.
RoundTripCall ==
    /\ calRes.op = "none"
    /\ \E start \in WindowDates, days \in 0..MaxDays, cal \in CalCalendars :
          LET added == addWorkingDaysOutcome(start, days, cal)
          IN  calRes' = [NoCalCall EXCEPT !.op = "roundTrip", !.date = start,
                                          !.days = days, !.calendar = cal,
                                          !.added = added, !.other = added.date,
                                          !.diff = diffWorkingDays(start, added.date, cal)]
    /\ UNCHANGED <<memVars, raceVars, lifeVars, fileVars, cmdVars, stateVars, projVars,
                   dashRes, progRes, treeRes, stepVars, reqVars>>

\* Keys that are no date: "2025-04-31" and "2025-04-00". parseDateKey splits
\* them into numbers and Date.UTC rolls the day over into the next or the
\* previous month; no function of calendar.ts tests a key before using it.
MalformedDates == {20250431, 20250400}

\* The keys given to the diffWorkingDays loop: the malformed ones and the
\* dates around them.
LoopDates == MalformedDates \cup {20250331, 20250401, 20250430, 20250501, 20250502}

\* One call of isWorkingDay, addWorkingDays or nextWorkingDay with a malformed
\* key. None of them has a throw statement on this path (thrown stays "none").
MalformedKeyCall ==
    /\ calRes.op = "none"
    /\ \E date \in MalformedDates, cal \in CalCalendars :
          \/ calRes' = [NoCalCall EXCEPT !.op = "isWorkingDay(malformed)", !.date = date,
                                         !.calendar = cal,
                                         !.working = isWorkingDay(date, cal)]
          \/ \E days \in 0..1 :
                calRes' = [NoCalCall EXCEPT !.op = "addWorkingDays(malformed)", !.date = date,
                                            !.days = days, !.calendar = cal,
                                            !.added = addWorkingDaysOutcome(date, days, cal)]
          \/ calRes' = [NoCalCall EXCEPT !.op = "nextWorkingDay(malformed)", !.date = date,
                                         !.calendar = cal,
                                         !.other = nextWorkingDay(date, cal)]
    /\ UNCHANGED <<memVars, raceVars, lifeVars, fileVars, cmdVars, stateVars, projVars,
                   dashRes, progRes, treeRes, stepVars, reqVars>>

\* diffWorkingDays with a malformed key, one loop iteration at a time. The
\* entry: 0 for equal keys, else the walk from the smaller key (string order)
\* towards the greater one.
DiffLoopStart ==
    /\ calRes.op = "none"
    /\ \E start \in LoopDates, endExclusive \in LoopDates, cal \in CalCalendars :
          /\ start \in MalformedDates \/ endExclusive \in MalformedDates
          /\ calRes' = [NoCalCall EXCEPT
                           !.op = "diffWorkingDays(malformed)", !.date = start,
                           !.other = endExclusive, !.calendar = cal,
                           !.cur = IF start < endExclusive THEN start ELSE endExclusive,
                           !.target = IF start < endExclusive THEN endExclusive ELSE start,
                           !.running = start # endExclusive]
    /\ UNCHANGED <<memVars, raceVars, lifeVars, fileVars, cmdVars, stateVars, projVars,
                   dashRes, progRes, treeRes, stepVars, reqVars>>

\* One iteration of while (cur !== target): count cur, step to nextDay(cur);
\* the loop is left, and diff returned, when cur is the target. The model
\* follows a loop for MaxLoopSteps iterations.
DiffLoopStep ==
    /\ calRes.op = "diffWorkingDays(malformed)"
    /\ calRes.running
    /\ calRes.steps < MaxLoopSteps
    /\ calRes' =
          IF calRes.cur = calRes.target
          THEN [calRes EXCEPT !.running = FALSE]
          ELSE [calRes EXCEPT
                  !.diff = IF isWorkingDay(calRes.cur, calRes.calendar)
                           THEN (IF calRes.date < calRes.other THEN @ + 1 ELSE @ - 1)
                           ELSE @,
                  !.cur = nextDay(calRes.cur),
                  !.steps = @ + 1]
    /\ UNCHANGED <<memVars, raceVars, lifeVars, fileVars, cmdVars, stateVars, projVars,
                   dashRes, progRes, treeRes, stepVars, reqVars>>

----------------------------------------------------------------------------
(* Projections (projections.ts) *)

ProjEv(type, partId, timestamp, notificationDate) ==
    [type |-> type, partId |-> partId, timestamp |-> timestamp,
     version |-> 0, commandId |-> NoCommand, notificationDate |-> notificationDate]

\* A slip: a reopen resets approved and leaves the snooze standing.
RECURSIVE FoldPartInputs_ReopenKeepsSnooze(_, _)
FoldPartInputs_ReopenKeepsSnooze(acc, partEvents) ==
    IF partEvents = <<>> THEN acc
    ELSE LET e == Head(partEvents)
             next == CASE e.type = "PartApproved" ->
                              [approved |-> TRUE, notificationDate |-> NoDateKey]
                       [] e.type = "PartReopened" ->
                              [acc EXCEPT !.approved = FALSE]
                       [] e.type = "PartSnoozed" ->
                              [acc EXCEPT !.notificationDate = e.notificationDate]
                       [] OTHER -> acc
         IN  FoldPartInputs_ReopenKeepsSnooze(next, Tail(partEvents))

\* The fold of projectPartInputs over the part's events, already sorted.
RECURSIVE FoldPartInputs(_, _)
FoldPartInputs(acc, partEvents) ==
    IF partEvents = <<>> THEN acc
    ELSE LET e == Head(partEvents)
             next == CASE e.type = "PartApproved" ->
                              [approved |-> TRUE, notificationDate |-> NoDateKey]
                       [] e.type = "PartReopened" ->
                              [approved |-> FALSE, notificationDate |-> NoDateKey]
                       [] e.type = "PartSnoozed" ->
                              [acc EXCEPT !.notificationDate = e.notificationDate]
                       [] OTHER -> acc
         IN  FoldPartInputs(next, Tail(partEvents))

\* A slip: the sort by timestamp left out.
projectPartInputs_Unsorted(events, partId) ==
    FoldPartInputs([approved |-> FALSE, notificationDate |-> NoDateKey],
                   SelectSeq(events, LAMBDA e : e.partId = partId))

\* A slip: a snooze is kept until it is cleared; later snoozes do not replace it.
RECURSIVE FoldPartInputs_FirstSnooze(_, _)
FoldPartInputs_FirstSnooze(acc, partEvents) ==
    IF partEvents = <<>> THEN acc
    ELSE LET e == Head(partEvents)
             next == CASE e.type = "PartApproved" ->
                              [approved |-> TRUE, notificationDate |-> NoDateKey]
                       [] e.type = "PartReopened" ->
                              [approved |-> FALSE, notificationDate |-> NoDateKey]
                       [] e.type = "PartSnoozed" /\ acc.notificationDate = NoDateKey ->
                              [acc EXCEPT !.notificationDate = e.notificationDate]
                       [] OTHER -> acc
         IN  FoldPartInputs_FirstSnooze(next, Tail(partEvents))

projectPartInputs_FirstSnooze(events, partId) ==
    FoldPartInputs_FirstSnooze([approved |-> FALSE, notificationDate |-> NoDateKey],
                               SortByTimestamp(SelectSeq(events, LAMBDA e : e.partId = partId)))

projectPartInputs(events, partId) ==
    FoldPartInputs([approved |-> FALSE, notificationDate |-> NoDateKey],
                   SortByTimestamp(SelectSeq(events, LAMBDA e : e.partId = partId)))

projectPartState(events, partId, endDate, now, timezone, calendar) ==
    LET in == projectPartInputs(events, partId)
    IN  computePartState([endDate |-> endDate, approved |-> in.approved,
                          notificationDate |-> in.notificationDate,
                          now |-> now, timezone |-> timezone], calendar)

\* The comparator of items.sort: status order, then endDate, then partId.
statusOrder(status) == IF status = "ActionRequired" THEN 0 ELSE 1

\* Part ids are written as JavaScript string literals. "\\u00e9" is the one
\* code unit U+00E9 and "e\\u0301" the two code units U+0065 U+0301: two
\* different strings (!==) that are canonically equivalent.
ComposedId   == "\\u00e9"
DecomposedId == "e\\u0301"

\* String.prototype.localeCompare compares under the collation of the locale:
\* canonically equivalent strings compare as 0, and the ids of the model
\* collate in the order e-acute, p1, p2.
CanonicalForm(partId) == IF partId = DecomposedId THEN ComposedId ELSE partId

PartIdRank(partId) ==
    CASE CanonicalForm(partId) = ComposedId -> 0
      [] CanonicalForm(partId) = "p1"       -> 1
      [] OTHER                              -> 2

CompareItems(a, b) ==
    IF statusOrder(a.status) # statusOrder(b.status)
    THEN statusOrder(a.status) - statusOrder(b.status)
    ELSE IF a.endDate # b.endDate THEN a.endDate - b.endDate
    ELSE PartIdRank(a.partId) - PartIdRank(b.partId)

RECURSIVE InsertItem(_, _)
InsertItem(sorted, x) ==
    IF sorted = <<>> THEN <<x>>
    ELSE IF CompareItems(sorted[Len(sorted)], x) <= 0
         THEN Append(sorted, x)
         ELSE Append(InsertItem(SubSeq(sorted, 1, Len(sorted) - 1), x), sorted[Len(sorted)])

RECURSIVE SortItems(_, _)
SortItems(sorted, rest) ==
    IF rest = <<>> THEN sorted
    ELSE SortItems(InsertItem(sorted, Head(rest)), Tail(rest))

\* The loop over parts: one item for every part whose state is in Tasks.
RECURSIVE CollectItems(_, _, _, _, _)
CollectItems(parts, events, now, timezone, calendar) ==
    IF parts = <<>> THEN <<>>
    ELSE LET p     == Head(parts)
             state == projectPartState(events, p.partId, p.endDate, now, timezone, calendar)
             rest  == CollectItems(Tail(parts), events, now, timezone, calendar)
         IN  IF ~isInTasks(state) THEN rest
             ELSE <<[partId  |-> p.partId,
                     status  |-> IF state = "Snoozed" THEN "Snoozed" ELSE "ActionRequired",
                     endDate |-> p.endDate,
                     overdue |-> state = "Overdue"]>> \o rest

projectDashboardState(parts, events, now, timezone, calendar) ==
    SortItems(<<>>, CollectItems(parts, events, now, timezone, calendar))

\* The inputs of the projections: event lists over a pool of part events,
\* the parts of the project with their end dates, the instants of the
\* window taken in UTC, any zone, and the default calendar.
ProjEventPool ==
    { ProjEv("PartApproved", "p1", 1000, NoDateKey),
      ProjEv("PartApproved", "p1", 1001, NoDateKey),
      ProjEv("PartReopened", "p1", 1000, NoDateKey),
      ProjEv("PartSnoozed", "p1", 1001, 20250420),
      ProjEv("PartSnoozed", "p1", 1000, 20250424),
      ProjEv("PartApproved", "p2", 1000, NoDateKey) }

ProjParts == << [partId |-> "p1", endDate |-> 20250417],
                [partId |-> "p2", endDate |-> 20250422] >>

ProjInstants ==
    { DateUTC(parseDateKey(d).y, parseDateKey(d).m, parseDateKey(d).d) * 86400 + t :
      d \in WindowDates, t \in {59, 60, 43200} }

NoProjCall ==
    [op |-> "none", events |-> <<>>, now |-> 0, timezone |-> "UTC",
     states |-> [p \in Parts |-> "none"], items |-> <<>>]

\* One reading of the project: projectPartState of every part and
\* projectDashboardState, on the same events, instant and zone.
ProjectCall ==
    /\ projRes.op = "none"
    /\ \E events \in SeqsUpTo(ProjEventPool, MaxProjStream), now \in ProjInstants,
          timezone \in Timezones :
          LET calendar == defaultSwedishProjectCalendar(<<>>)
          IN  projRes' =
                [op |-> "project", events |-> events, now |-> now, timezone |-> timezone,
                 states |-> [p \in Parts |->
                               projectPartState(events, p,
                                   ProjParts[CHOOSE i \in 1..Len(ProjParts) :
                                                 ProjParts[i].partId = p].endDate,
                                   now, timezone, calendar)],
                 items |-> projectDashboardState(ProjParts, events, now, timezone, calendar)]
    /\ UNCHANGED <<memVars, raceVars, lifeVars, fileVars, cmdVars, stateVars, pureVars, stepVars, reqVars>>

\* The inputs of projectDashboardState: lists of parts with different part
\* ids, a sub-list of the dashboard events, and noon UTC of a few dates.
DashPartIds == {"p1", "p2", ComposedId, DecomposedId}

DashParts == [partId : DashPartIds, endDate : EndDates]

DashPartLists ==
    { parts \in SeqsUpTo(DashParts, MaxParts) :
        \A i, j \in 1..Len(parts) : i # j => parts[i].partId # parts[j].partId }

DashEvents ==
    << ProjEv("PartSnoozed", "p1", 1000, 20250424),
       ProjEv("PartSnoozed", "p2", 1000, 20250424),
       ProjEv("PartSnoozed", DecomposedId, 1000, 20250424),
       ProjEv("PartApproved", "p1", 1001, NoDateKey) >>

DashEventLists ==
    { SelectSeq(DashEvents, LAMBDA e : e \in S) :
        S \in SUBSET { DashEvents[i] : i \in 1..Len(DashEvents) } }

DashInstants ==
    { DateUTC(parseDateKey(d).y, parseDateKey(d).m, parseDateKey(d).d) * 86400 + 43200 :
      d \in {20250417, 20250422, 20250425} }

NoDashCall ==
    [op |-> "none", parts |-> <<>>, events |-> <<>>, now |-> 0, timezone |-> "UTC",
     items |-> <<>>]

\* One call of projectDashboardState with the default calendar.
ProjectDashboardStateCall ==
    /\ dashRes.op = "none"
    /\ \E parts \in DashPartLists, events \in DashEventLists, now \in DashInstants :
          dashRes' =
            [op |-> "projectDashboardState", parts |-> parts, events |-> events,
             now |-> now, timezone |-> "UTC",
             items |-> projectDashboardState(parts, events, now, "UTC",
                                             defaultSwedishProjectCalendar(<<>>))]
    /\ UNCHANGED <<memVars, raceVars, lifeVars, fileVars, cmdVars, stateVars, projVars,
                   progRes, treeRes, calRes, stepVars, reqVars>>

----------------------------------------------------------------------------
(* Working days of the pace projection (workingDays.ts). Its functions have *)
(* the names of calendar.ts; here they carry the suffix WD.                 *)

DEFAULT_WORKDAYS == {1, 2, 3, 4, 5}

\* getConfig: an empty workdays list means the default one.
getConfig(config) ==
    [workdays |-> IF config.workdays = {} THEN DEFAULT_WORKDAYS ELSE config.workdays,
     holidays |-> config.holidays]

\* ISO weekday 1..7 (Mon = 1, Sun = 7) of noon UTC on the date.
isoWeekday(dateOnly) ==
    LET p      == parseDateKey(dateOnly)
        utcDay == weekdayOfDays(DateUTC(p.y, p.m, p.d))
    IN  IF utcDay = 0 THEN 7 ELSE utcDay

addCalendarDays(dateOnly, days) ==
    LET p == parseDateKey(dateOnly)
    IN  toKeyUTC(DateUTC(p.y, p.m, p.d) + days)

isWorkingDayWD(date, config) ==
    IF date \in getConfig(config).holidays THEN FALSE
    ELSE isoWeekday(date) \in getConfig(config).workdays

\* The loop of diffWorkingDays: the working days d with from < d <= to.
RECURSIVE CountWorkingDaysWD(_, _, _)
CountWorkingDaysWD(d, to, config) ==
    IF d > to THEN 0
    ELSE (IF isWorkingDayWD(d, config) THEN 1 ELSE 0)
         + CountWorkingDaysWD(addCalendarDays(d, 1), to, config)

diffWorkingDaysWD(from, to, config) ==
    IF to < from THEN 0 - CountWorkingDaysWD(addCalendarDays(to, 1), from, config)
    ELSE IF from = to THEN 0
    ELSE CountWorkingDaysWD(addCalendarDays(from, 1), to, config)

----------------------------------------------------------------------------
(* Pace and progress (pace.ts, progress.ts) *)

\* Intl.DateTimeFormat("en-CA", {timeZone}) of the instant: its local date.
dateKeyFromDate(ts, timezone) == toKeyUTC((ts + TzOffset(timezone)) \div 86400)

\* A pace is a number or null.
NullPace == [isNull |-> TRUE, value |-> 0]

Pace(n) == [isNull |-> FALSE, value |-> n]

projectPartPace(events, partId, endDate, calendar, timezone) ==
    LET completed == SortByTimestamp(SelectSeq(events,
                         LAMBDA e : e.partId = partId /\ e.type = "PartCompleted"))
    IN  IF completed = <<>> THEN NullPace
        ELSE Pace(diffWorkingDaysWD(endDate,
                      dateKeyFromDate(completed[1].timestamp, timezone),
                      [workdays |-> IF 0 \in calendar.weekendDays /\ 6 \in calendar.weekendDays
                                    THEN {1, 2, 3, 4, 5}
                                    ELSE {1, 2, 3, 4, 5, 6, 7},
                       holidays |-> {}]))

\* A slip: the OnTime band one day too narrow on the late side.
projectPartCompletionStatus_NarrowBand(events, partId, endDate, calendar, timezone) ==
    LET delta == projectPartPace(events, partId, endDate, calendar, timezone)
    IN  IF delta.isNull THEN "NotCompleted"
        ELSE IF delta.value < 0 - 1 THEN "Early"
        ELSE IF delta.value < 1 THEN "OnTime"
        ELSE "Delayed"

projectPartCompletionStatus(events, partId, endDate, calendar, timezone) ==
    LET delta == projectPartPace(events, partId, endDate, calendar, timezone)
    IN  IF delta.isNull THEN "NotCompleted"
        ELSE IF delta.value < 0 - 1 THEN "Early"
        ELSE IF delta.value <= 1 THEN "OnTime"
        ELSE "Delayed"

\* A stage is [id, parentStageId]; a stage without parent has NoStage.
NoStage == "none"
ROOT    == "__root"

ParentKey(stage) == IF stage.parentStageId = NoStage THEN ROOT ELSE stage.parentStageId

\* childrenOf.get(key) ?? []
childrenOf(stages, key) ==
    { stages[i].id : i \in { j \in 1..Len(stages) : ParentKey(stages[j]) = key } }

RECURSIVE subtreeIds(_, _)
subtreeIds(stages, id) ==
    {id} \cup UNION { subtreeIds(stages, childId) : childId \in childrenOf(stages, id) }

\* A slip: only the stage itself and its children, not the whole subtree.
collectStageSubtreePartIds_OneLevel(snapshot, stageId) ==
    LET ids == {stageId} \cup childrenOf(snapshot.stages, stageId)
    IN  SelectSeq([i \in 1..Len(snapshot.parts) |-> snapshot.parts[i]],
                  LAMBDA p : p.stageId \in ids)

\* The parts of the subtree, in the order of snapshot.parts (the code keeps
\* their ids and looks each part up again by id).
collectStageSubtreePartIds(snapshot, stageId) ==
    LET ids == subtreeIds(snapshot.stages, stageId)
    IN  SelectSeq([i \in 1..Len(snapshot.parts) |-> snapshot.parts[i]],
                  LAMBDA p : p.stageId \in ids)

FindPart(snapshot, partId) ==
    snapshot.parts[CHOOSE i \in 1..Len(snapshot.parts) :
                       /\ snapshot.parts[i].partId = partId
                       /\ \A j \in 1..(i - 1) : snapshot.parts[j].partId # partId]

\* completed / total as a fraction; 0 is 0/1.
Fraction(num, den) == IF den = 0 THEN [num |-> 0, den |-> 1] ELSE [num |-> num, den |-> den]

computeStageProgress(stageId, snapshot, events, calendar, timezone) ==
    LET partIds   == collectStageSubtreePartIds(snapshot, stageId)
        total     == Len(partIds)
        completed == Cardinality({ i \in 1..Len(partIds) :
                         projectPartCompletionStatus(events, partIds[i].partId,
                             FindPart(snapshot, partIds[i].partId).endDate,
                             calendar, timezone) # "NotCompleted" })
    IN  IF total = 0 THEN [completed |-> 0, total |-> 0, percent |-> Fraction(0, 0)]
        ELSE [completed |-> completed, total |-> total,
              percent |-> Fraction(completed, total)]

projectProgress(snapshot, events, calendar, timezone) ==
    LET parts == snapshot.parts
        StatusOf(i) == projectPartCompletionStatus(events, parts[i].partId,
                                                   parts[i].endDate, calendar, timezone)
        Count(status) == Cardinality({ i \in 1..Len(parts) : StatusOf(i) = status })
        onTime  == Count("OnTime")
        delayed == Count("Delayed")
        early   == Count("Early")
    IN  IF Len(parts) = 0
        THEN [percent |-> Fraction(0, 0), onTime |-> 0, delayed |-> 0, early |-> 0,
              notCompleted |-> 0]
        ELSE [percent |-> Fraction(onTime + delayed + early, Len(parts)),
              onTime |-> onTime, delayed |-> delayed, early |-> early,
              notCompleted |-> Len(parts) - onTime - delayed - early]

\* The inputs of projectPartPace: completions of p1 at noon and at 23:30 UTC
\* of the dates of the window (23:30 UTC is the next day in Stockholm), a
\* reopening of p1 and a completion of p2.
PaceTimes == {43200, 84600}

PaceInstants ==
    { DateUTC(parseDateKey(d).y, parseDateKey(d).m, parseDateKey(d).d) * 86400 + t :
      d \in WindowDates, t \in PaceTimes }

PaceEventPool ==
    { ProjEv("PartCompleted", "p1", t, NoDateKey) : t \in PaceInstants }
    \cup { ProjEv("PartReopened", "p1", DateUTC(2025, 4, 18) * 86400, NoDateKey),
           ProjEv("PartCompleted", "p2", DateUTC(2025, 4, 16) * 86400, NoDateKey) }

PaceTimezones == {"UTC", "Europe/Stockholm"}

\* The inputs of the progress functions: a tree root > a > b with the parts
\* p1, p2, p3 placed on its stages so that every stage has a part in its
\* subtree, or the empty project; and sub-lists of the progress events.
ProgStages ==
    << [id |-> "root", parentStageId |-> NoStage],
       [id |-> "a", parentStageId |-> "root"],
       [id |-> "b", parentStageId |-> "a"] >>

ProgPartIds == <<"p1", "p2", "p3">>

ProgEndDates == <<20250417, 20250422, 20250422>>

ProgSnapshots ==
    { [stages |-> ProgStages,
       parts  |-> [i \in 1..3 |-> [partId |-> ProgPartIds[i], stageId |-> place[i],
                                    endDate |-> ProgEndDates[i]]]] :
        place \in { f \in [1..3 -> {"root", "a", "b"}] : \E i \in 1..3 : f[i] = "b" } }
    \cup { [stages |-> <<>>, parts |-> <<>>] }

ProgStageIds == {"root", "a", "b", "zz"}

ProgEvents ==
    << ProjEv("PartCompleted", "p1", DateUTC(2025, 4, 16) * 86400 + 43200, NoDateKey),
       ProjEv("PartReopened", "p1", DateUTC(2025, 4, 17) * 86400, NoDateKey),
       ProjEv("PartCompleted", "p1", DateUTC(2025, 4, 25) * 86400 + 43200, NoDateKey),
       ProjEv("PartCompleted", "p2", DateUTC(2025, 4, 16) * 86400 + 43200, NoDateKey),
       ProjEv("PartCompleted", "p3", DateUTC(2025, 4, 23) * 86400 + 43200, NoDateKey) >>

ProgEventLists ==
    { SelectSeq(ProgEvents, LAMBDA e : e \in S) :
        S \in SUBSET { ProgEvents[i] : i \in 1..Len(ProgEvents) } }

NoProgCall ==
    [op |-> "none", events |-> <<>>, partId |-> NoPart, endDate |-> NoDateKey,
     calendar |-> defaultSwedishProjectCalendar(<<>>), timezone |-> "UTC",
     snapshot |-> [stages |-> <<>>, parts |-> <<>>], stageId |-> NoStage,
     pace |-> NullPace,
     progress |-> [percent |-> Fraction(0, 0), onTime |-> 0, delayed |-> 0, early |-> 0,
                   notCompleted |-> 0],
     stage |-> [completed |-> 0, total |-> 0, percent |-> Fraction(0, 0)]]

\* One call of projectPartPace for p1.
ProjectPartPaceCall ==
    /\ progRes.op = "none"
    /\ \E events \in SeqsUpTo(PaceEventPool, MaxPaceEvents), endDate \in EndDates,
          calendar \in Calendars, timezone \in PaceTimezones :
          progRes' = [NoProgCall EXCEPT
                        !.op = "projectPartPace", !.events = events, !.partId = "p1",
                        !.endDate = endDate, !.calendar = calendar, !.timezone = timezone,
                        !.pace = projectPartPace(events, "p1", endDate, calendar, timezone)]
    /\ UNCHANGED <<memVars, raceVars, lifeVars, fileVars, cmdVars, stateVars, projVars,
                   dashRes, treeRes, calRes, stepVars, reqVars>>

\* One call of projectProgress.
ProjectProgressCall ==
    /\ progRes.op = "none"
    /\ \E snapshot \in ProgSnapshots, events \in ProgEventLists :
          progRes' = [NoProgCall EXCEPT
                        !.op = "projectProgress", !.snapshot = snapshot, !.events = events,
                        !.progress = projectProgress(snapshot, events,
                                         defaultSwedishProjectCalendar(<<>>), "UTC")]
    /\ UNCHANGED <<memVars, raceVars, lifeVars, fileVars, cmdVars, stateVars, projVars,
                   dashRes, treeRes, calRes, stepVars, reqVars>>

\* One call of computeStageProgress.
ComputeStageProgressCall ==
    /\ progRes.op = "none"
    /\ \E stageId \in ProgStageIds, snapshot \in ProgSnapshots, events \in ProgEventLists :
          progRes' = [NoProgCall EXCEPT
                        !.op = "computeStageProgress", !.stageId = stageId,
                        !.snapshot = snapshot, !.events = events,
                        !.stage = computeStageProgress(stageId, snapshot, events,
                                      defaultSwedishProjectCalendar(<<>>), "UTC")]
    /\ UNCHANGED <<memVars, raceVars, lifeVars, fileVars, cmdVars, stateVars, projVars,
                   dashRes, treeRes, calRes, stepVars, reqVars>>

----------------------------------------------------------------------------
(* Stage tree invariants (gantt.ts validateTree, projectSnapshot.ts) *)

StageIdsOf(stages) == { stages[i].id : i \in 1..Len(stages) }

\* new Map(stages.map((s) => [s.id, s])): the last stage of an id.
stageById(stages, id) ==
    stages[CHOOSE i \in 1..Len(stages) :
               /\ stages[i].id = id
               /\ \A j \in (i + 1)..Len(stages) : stages[j].id # id]

\* hasCycle follows the parent chain; visiting holds the ids on the chain.
RECURSIVE hasCycle(_, _, _)
hasCycle(stages, visiting, id) ==
    IF id \in visiting THEN TRUE
    ELSE LET parentId == IF id \in StageIdsOf(stages)
                         THEN stageById(stages, id).parentStageId
                         ELSE NoStage
         IN  IF parentId # NoStage /\ parentId \in StageIdsOf(stages)
             THEN hasCycle(stages, visiting \cup {id}, parentId)
             ELSE FALSE

\* The number of parts on the stages of the subtree.
RECURSIVE SumOver(_, _)
SumOver(ids, parts) ==
    IF ids = {} THEN 0
    ELSE LET sid == CHOOSE x \in ids : TRUE
         IN  Cardinality({ i \in 1..Len(parts) : parts[i].stageId = sid })
             + SumOver(ids \ {sid}, parts)

partCount(stages, parts, id) == SumOver(subtreeIds(stages, id), parts)

TreeOk == [outcome |-> "ok", message |-> "none", stageId |-> NoStage]

InvariantViolation(message, stageId) ==
    [outcome |-> "InvariantViolation", message |-> message, stageId |-> stageId]

\* The first of the positions of a for-of loop at which it throws.
FirstOf(positions) == CHOOSE i \in positions : \A j \in positions : i <= j

\* A slip: only the parts on the stage itself are counted.
validateTree_OwnPartsOnly(stages, parts) ==
    LET Cyclic(id) == hasCycle(stages, {}, id)
        Empty(id)  == SumOver({id}, parts) = 0
    IN  IF \E i \in 1..Len(stages) : Cyclic(stages[i].id)
        THEN InvariantViolation("Stage tree contains a cycle",
                 stages[FirstOf({ i \in 1..Len(stages) : Cyclic(stages[i].id) })].id)
        ELSE IF \E i \in 1..Len(stages) : Empty(stages[i].id)
        THEN InvariantViolation("Stage must have at least one Part in its subtree",
                 stages[FirstOf({ i \in 1..Len(stages) : Empty(stages[i].id) })].id)
        ELSE TreeOk

validateTree(stages, parts) ==
    LET Cyclic(id) == hasCycle(stages, {}, id)
        Empty(id)  == partCount(stages, parts, id) = 0
    IN  IF \E i \in 1..Len(stages) : Cyclic(stages[i].id)
        THEN InvariantViolation("Stage tree contains a cycle",
                 stages[FirstOf({ i \in 1..Len(stages) : Cyclic(stages[i].id) })].id)
        ELSE IF \E i \in 1..Len(stages) : Empty(stages[i].id)
        THEN InvariantViolation("Stage must have at least one Part in its subtree",
                 stages[FirstOf({ i \in 1..Len(stages) : Empty(stages[i].id) })].id)
        ELSE TreeOk

\* toGanttPart keeps partId (as id) and stageId, the fields validateTree reads.
validateProjectSnapshot(snapshot) == validateTree(snapshot.stages, snapshot.parts)

\* The inputs of validateProjectSnapshot: the stages a, b, c (any of them, in
\* any order), each with no parent or with a, b, c or the unknown stage x
\* as parent, and one part on each stage of a set of stages.
TreeStageIds == {"a", "b", "c"}

TreeParents == {NoStage, "a", "b", "c", "x"}

TreeStageLists ==
    { stages \in SeqsUpTo([id : TreeStageIds, parentStageId : TreeParents],
                           Cardinality(TreeStageIds)) :
        \A i, j \in 1..Len(stages) : i # j => stages[i].id # stages[j].id }

TreePartSlots ==
    << [partId |-> "p1", stageId |-> "a", endDate |-> 20250417],
       [partId |-> "p2", stageId |-> "b", endDate |-> 20250417],
       [partId |-> "p3", stageId |-> "c", endDate |-> 20250417],
       [partId |-> "p4", stageId |-> "x", endDate |-> 20250417] >>

TreePartLists ==
    { SelectSeq(TreePartSlots, LAMBDA p : p \in S) :
        S \in SUBSET { TreePartSlots[i] : i \in 1..Len(TreePartSlots) } }

NoTreeCall ==
    [op |-> "none", snapshot |-> [stages |-> <<>>, parts |-> <<>>], result |-> TreeOk]

\* One call of validateProjectSnapshot.
ValidateProjectSnapshotCall ==
    /\ treeRes.op = "none"
    /\ \E stages \in TreeStageLists, parts \in TreePartLists :
          LET snapshot == [stages |-> stages, parts |-> parts]
          IN  treeRes' = [op |-> "validateProjectSnapshot", snapshot |-> snapshot,
                          result |-> validateProjectSnapshot(snapshot)]
    /\ UNCHANGED <<memVars, raceVars, lifeVars, fileVars, cmdVars, stateVars, projVars,
                   dashRes, progRes, calRes, stepVars, reqVars>>

----------------------------------------------------------------------------
(* Command requests: POST .../parts/:partId/<action> with an x-command-id *)

Actions    == {"approve", "complete", "snooze", "reopen"}

\* The "at" of the request bodies: every request is made at the same instant.
RequestTimes == {1001}

\* The transition function a route applies to the part's events.
Transition(action, events, partId, notificationDate, timestamp) ==
    CASE action = "approve"  -> approvePart(events, partId, timestamp)
      [] action = "complete" -> completePart(events, partId, timestamp)
      [] action = "snooze"   -> snoozePart(events, partId, notificationDate, timestamp)
      [] action = "reopen"   -> reopenPart(events, partId, timestamp)

WithCommandId(events, commandId) ==
    [i \in 1..Len(events) |-> [events[i] EXCEPT !.commandId = commandId]]

\* One mutating request: 400 without a command id; 204 and no append when
\* hasCommand finds the id in the project's log; else the transition is
\* applied to the part's events and its new events, carrying the command id,
\* are appended at the version that was read (200), or the transition is
\* refused (409).
HandleCommand(projectId, partId, action, notificationDate, timestamp, commandId) ==
    LET list == MemLoadByProject(projectId)
    IN  IF commandId = NoCommand
        THEN [status |-> 400, delta |-> <<>>, list |-> list]
        ELSE IF MemHasCommand(projectId, commandId)
        THEN [status |-> 204, delta |-> <<>>, list |-> list]
        ELSE LET events == MemLoadByPart(projectId, partId)
                 next   == Transition(action, events, partId, notificationDate, timestamp)
             IN  IF next.outcome # "ok"
                 THEN [status |-> 409, delta |-> <<>>, list |-> list]
                 ELSE LET delta == WithCommandId(
                                       SubSeq(next.returned, Len(events) + 1, Len(next.returned)),
                                       commandId)
                      IN  [status |-> 200, delta |-> delta,
                           list |-> MemAppend(list, Len(list), delta).list]

NoCommandCall ==
    [projectId |-> "none", commandId |-> NoCommand, status |-> 0, delta |-> <<>>,
     before |-> <<>>]

HandleCommandCall ==
    /\ \E projectId \in Projects, partId \in Parts, action \in Actions,
          timestamp \in RequestTimes, commandId \in CommandIds \cup {NoCommand} :
          LET r == HandleCommand(projectId, partId, action,
                                 IF action = "snooze" THEN "2025-02-25" ELSE NoDate,
                                 timestamp, commandId)
          IN  /\ Len(byProject[projectId]) <= MaxLog
              /\ byProject' = [byProject EXCEPT ![projectId] = r.list]
              /\ cmdRes' = [projectId |-> projectId, commandId |-> commandId,
                            status |-> r.status, delta |-> r.delta,
                            before |-> byProject[projectId]]
    /\ UNCHANGED <<memRes, raceVars, lifeVars, fileVars, stateVars, projVars, pureVars, stepVars, reqVars>>

----------------------------------------------------------------------------
(* FileProjectEventStore: one NDJSON log and one snapshot file per file id *)

\* Project ids handed to the file store; safeId replaces every character
\* outside [a-zA-Z0-9._-] by "_", so "a/b" and "a_b" name the same files.
FileProjectIds == {"proj1", "a/b", "a_b"}

safeId(id) == IF id = "a/b" THEN "a_b" ELSE id

FileIds == { safeId(id) : id \in FileProjectIds }

Cutoffs == {1000, 1001}

Snapshots ==
    [projectId : FileProjectIds, lastEventTimestamp : Cutoffs,
     lifecycleStateByPart : {"opaque"}]

NoSnapshot == [projectId |-> "none", lastEventTimestamp |-> 0, lifecycleStateByPart |-> "none"]

\* A file: absent (reads fail with ENOENT) or present with its content.
NoEventsFile   == [exists |-> FALSE, lines |-> <<>>]
NoSnapshotFile == [exists |-> FALSE, json |-> NoSnapshot]

\* JSON.stringify(e) + "\n" and JSON.parse(line) on a plain event object.
Stringify(e) == [json |-> e]
Parse(line)  == line.json

\* append: open the log with flag "a" (created when absent), write one line
\* per event, sync. An empty events list returns before touching the disk.
FileAppend(file, events) ==
    IF Len(events) = 0 THEN file
    ELSE [exists |-> TRUE,
          lines  |-> file.lines \o [i \in 1..Len(events) |-> Stringify(events[i])]]

\* loadSnapshot: the parsed snapshot, or null (has = FALSE) on ENOENT.
loadSnapshot(projectId) ==
    LET file == snapFile[safeId(projectId)]
    IN  IF file.exists THEN [has |-> TRUE, snapshot |-> file.json]
        ELSE [has |-> FALSE, snapshot |-> NoSnapshot]

\* loadByProject's loop skipping only the events before the cutoff.
RECURSIVE ParseAfterCutoff_Strict(_, _, _)
ParseAfterCutoff_Strict(lines, hasCutoff, cutoff) ==
    IF lines = <<>> THEN <<>>
    ELSE LET parsed == Parse(Head(lines))
             rest   == ParseAfterCutoff_Strict(Tail(lines), hasCutoff, cutoff)
         IN  IF hasCutoff /\ parsed.timestamp < cutoff THEN rest
             ELSE <<parsed>> \o rest

RECURSIVE ParseAfterCutoff(_, _, _)
ParseAfterCutoff(lines, hasCutoff, cutoff) ==
    IF lines = <<>> THEN <<>>
    ELSE LET parsed == Parse(Head(lines))
             rest   == ParseAfterCutoff(Tail(lines), hasCutoff, cutoff)
         IN  IF hasCutoff /\ parsed.timestamp <= cutoff THEN rest
             ELSE <<parsed>> \o rest

FileLoadByProject(projectId) ==
    LET file == eventsFile[safeId(projectId)]
        snap == loadSnapshot(projectId)
    IN  IF ~file.exists THEN <<>>
        ELSE ParseAfterCutoff(file.lines, snap.has, snap.snapshot.lastEventTimestamp)

FileLoadByPart(projectId, partId) ==
    SelectSeq(FileLoadByProject(projectId), LAMBDA e : e.partId = partId)

\* The lines of the log as they are on disk, parsed, no cutoff applied.
StoredEvents(projectId) ==
    ParseAfterCutoff(eventsFile[safeId(projectId)].lines, FALSE, 0)

\* hasCommand: reads the log file only (false on ENOENT) and looks for a line
\* whose commandId is the given one; the snapshot is not consulted.
FileHasCommand(projectId, commandId) ==
    LET file == eventsFile[safeId(projectId)]
    IN  /\ file.exists
        /\ \E i \in 1..Len(file.lines) : Parse(file.lines[i]).commandId = commandId

NoFileCall ==
    [op |-> "none", projectId |-> "none", partId |-> NoPart, events |-> <<>>,
     snapshot |-> NoSnapshot, outcome |-> "none", beforeStored |-> <<>>,
     beforeLoaded |-> <<>>, result |-> <<>>, commandId |-> NoCommand, found |-> FALSE]

FileCall(op, projectId) ==
    [NoFileCall EXCEPT !.op = op, !.projectId = projectId,
                       !.beforeStored = StoredEvents(projectId),
                       !.beforeLoaded = FileLoadByProject(projectId)]

FileAppendCall ==
    /\ \E projectId \in FileProjectIds, events \in EventLists :
          /\ Len(eventsFile[safeId(projectId)].lines) + Len(events) <= MaxLog
          /\ eventsFile' = [eventsFile EXCEPT ![safeId(projectId)] =
                                FileAppend(eventsFile[safeId(projectId)], events)]
          /\ fileRes' = [FileCall("append", projectId) EXCEPT !.events = events,
                                                             !.outcome = "ok"]
    /\ UNCHANGED <<snapFile, memVars, raceVars, lifeVars, cmdVars, stateVars, projVars, pureVars, stepVars, reqVars>>

FileLoadByProjectCall ==
    /\ \E projectId \in FileProjectIds :
          fileRes' = [FileCall("loadByProject", projectId) EXCEPT
                          !.outcome = "ok", !.result = FileLoadByProject(projectId)]
    /\ UNCHANGED <<eventsFile, snapFile, memVars, raceVars, lifeVars, cmdVars, stateVars, projVars, pureVars, stepVars, reqVars>>

FileLoadByPartCall ==
    /\ \E projectId \in FileProjectIds, partId \in Parts :
          fileRes' = [FileCall("loadByPart", projectId) EXCEPT
                          !.partId = partId, !.outcome = "ok",
                          !.result = FileLoadByPart(projectId, partId)]
    /\ UNCHANGED <<eventsFile, snapFile, memVars, raceVars, lifeVars, cmdVars, stateVars, projVars, pureVars, stepVars, reqVars>>

\* compact with the projectId check made after the files were written.
FileCompact_WriteFirst(projectId, snapshot) ==
    [outcome    |-> IF snapshot.projectId # projectId THEN "Error" ELSE "ok",
     snapFile   |-> [snapFile EXCEPT ![safeId(projectId)] =
                         [exists |-> TRUE, json |-> snapshot]],
     eventsFile |-> [eventsFile EXCEPT ![safeId(projectId)] =
                         [exists |-> TRUE, lines |-> <<>>]]]

\* compact: reject a snapshot of another project; else write the snapshot to
\* a temp file, rename it over the snapshot file, and write "" to the log.
FileCompact(projectId, snapshot) ==
    IF snapshot.projectId # projectId
    THEN [outcome |-> "Error", snapFile |-> snapFile, eventsFile |-> eventsFile]
    ELSE [outcome    |-> "ok",
          snapFile   |-> [snapFile EXCEPT ![safeId(projectId)] =
                              [exists |-> TRUE, json |-> snapshot]],
          eventsFile |-> [eventsFile EXCEPT ![safeId(projectId)] =
                              [exists |-> TRUE, lines |-> <<>>]]]

FileCompactCall ==
    /\ \E projectId \in FileProjectIds, snapshot \in Snapshots :
          LET r == FileCompact(projectId, snapshot)
          IN  /\ snapFile' = r.snapFile
              /\ eventsFile' = r.eventsFile
              /\ fileRes' = [FileCall("compact", projectId) EXCEPT
                                 !.snapshot = snapshot, !.outcome = r.outcome]
    /\ UNCHANGED <<memVars, raceVars, lifeVars, cmdVars, stateVars, projVars, pureVars, stepVars, reqVars>>

----------------------------------------------------------------------------
(* FileProjectEventStore, one await at a time: append and compact of one   *)
(* project as the file system sees them. Nothing in the store serializes   *)
(* the calls of a project, so their steps interleave freely.               *)

StepProject == "proj1"

\* A file opened with flag "w" and not yet written to the end: JSON text
\* that stops short.
PartialJson == [projectId |-> "partial", lastEventTimestamp |-> 0, lifecycleStateByPart |-> "partial"]

NoAppend  == [pc |-> "idle", events |-> <<>>, overlapped |-> FALSE]
NoCompact == [pc |-> "idle", at |-> 0, snapshot |-> NoSnapshot, outcome |-> "none",
              truncated |-> FALSE]
NoHasCommand == [seen |-> {}, commandId |-> NoCommand, found |-> FALSE]

InFlight(call) == call.pc \notin {"idle", "done", "crashed"}

\* append up to fs.open(file, "a"): an empty list returns at once, else the
\* log is created when absent.
StepAppendOpen ==
    /\ app.pc = "idle"
    /\ \E events \in EventLists :
          IF Len(events) = 0
          THEN /\ app' = [app EXCEPT !.pc = "done"]
               /\ UNCHANGED eventsFile
          ELSE /\ app' = [pc |-> "open", events |-> events, overlapped |-> InFlight(comp)]
               /\ eventsFile' = [eventsFile EXCEPT ![safeId(StepProject)].exists = TRUE]
    /\ UNCHANGED <<snapFile, fileRes, comp, tmpFile, hc,
                   memVars, raceVars, lifeVars, cmdVars, stateVars, projVars, pureVars, reqVars>>

\* fh.write(lines): the lines go to the end of the file as it is now.
StepAppendWrite ==
    /\ app.pc = "open"
    /\ app' = [app EXCEPT !.pc = "written"]
    /\ eventsFile' = [eventsFile EXCEPT ![safeId(StepProject)] = FileAppend(@, app.events)]
    /\ UNCHANGED <<snapFile, fileRes, comp, tmpFile, hc,
                   memVars, raceVars, lifeVars, cmdVars, stateVars, projVars, pureVars, reqVars>>

\* fh.sync(), fh.close() and the return of append.
StepAppendClose ==
    /\ app.pc = "written"
    /\ app' = [app EXCEPT !.pc = "done"]
    /\ UNCHANGED <<eventsFile, snapFile, fileRes, comp, tmpFile, hc,
                   memVars, raceVars, lifeVars, cmdVars, stateVars, projVars, pureVars, reqVars>>

\* The file operations of compact, in the order of its statements.
\* A slip: the log emptied before the snapshot is in place.
compactSteps_TruncateFirst == <<"truncate", "openTmp", "writeTmp", "rename">>

compactSteps == <<"openTmp", "writeTmp", "rename", "truncate">>

\* compact up to its first file operation: a snapshot of another project
\* throws before anything is written.
StepCompactBegin ==
    /\ comp.pc = "idle"
    /\ \E snapshot \in Snapshots :
          /\ comp' = IF snapshot.projectId # StepProject
                     THEN [NoCompact EXCEPT !.pc = "done", !.snapshot = snapshot,
                                            !.outcome = "Error"]
                     ELSE [NoCompact EXCEPT !.pc = "running", !.at = 1,
                                            !.snapshot = snapshot]
          /\ app' = [app EXCEPT !.overlapped =
                         @ \/ (InFlight(app) /\ snapshot.projectId = StepProject)]
    /\ UNCHANGED <<eventsFile, snapFile, fileRes, tmpFile, hc,
                   memVars, raceVars, lifeVars, cmdVars, stateVars, projVars, pureVars, reqVars>>

\* One file operation of compact; after the last one compact returns.
\*   openTmp, writeTmp: fs.writeFile(tmp, json) creates or empties tmp, then
\*                      writes the text;
\*   rename:            fs.rename(tmp, snapFile), atomic;
\*   truncate:          fs.writeFile(eventsFile, "").
StepCompact ==
    /\ comp.pc = "running"
    /\ LET stmt == compactSteps[comp.at]
           id   == safeId(StepProject)
           last == comp.at = Len(compactSteps)
       IN  /\ comp' = [comp EXCEPT !.at = @ + 1,
                                   !.pc = IF last THEN "done" ELSE @,
                                   !.outcome = IF last THEN "ok" ELSE @,
                                   !.truncated = @ \/ stmt = "truncate"]
           /\ tmpFile' = CASE stmt = "openTmp"  -> [exists |-> TRUE, json |-> PartialJson]
                           [] stmt = "writeTmp" -> [exists |-> TRUE, json |-> comp.snapshot]
                           [] stmt = "rename"   -> NoSnapshotFile
                           [] OTHER             -> tmpFile
           /\ snapFile' = IF stmt = "rename"
                          THEN [snapFile EXCEPT ![id] = tmpFile]
                          ELSE snapFile
           /\ eventsFile' = IF stmt = "truncate"
                            THEN [eventsFile EXCEPT ![id] = [exists |-> TRUE, lines |-> <<>>]]
                            ELSE eventsFile
    /\ UNCHANGED <<fileRes, app, hc,
                   memVars, raceVars, lifeVars, cmdVars, stateVars, projVars, pureVars, reqVars>>

\* The process dies: a call that was in flight makes no further step.
StepCrash ==
    /\ InFlight(app) \/ InFlight(comp)
    /\ app' = IF InFlight(app) THEN [app EXCEPT !.pc = "crashed"] ELSE app
    /\ comp' = IF InFlight(comp) THEN [comp EXCEPT !.pc = "crashed"] ELSE comp
    /\ UNCHANGED <<eventsFile, snapFile, fileRes, tmpFile, hc,
                   memVars, raceVars, lifeVars, cmdVars, stateVars, projVars, pureVars, reqVars>>

\* One call of hasCommand; seen collects the ids it has answered true for.
StepHasCommand ==
    /\ \E commandId \in CommandIds :
          LET found == FileHasCommand(StepProject, commandId)
          IN  hc' = [seen |-> IF found THEN hc.seen \cup {commandId} ELSE hc.seen,
                     commandId |-> commandId, found |-> found]
    /\ UNCHANGED <<eventsFile, snapFile, fileRes, app, comp, tmpFile,
                   memVars, raceVars, lifeVars, cmdVars, stateVars, projVars, pureVars, reqVars>>

----------------------------------------------------------------------------
(* Mutating requests (createHandler): POST /api/projects/:projectId/parts/ *)
(* :partId/approve|complete|reopen|snooze, served over a                   *)
(* FileProjectEventStore. Each handler awaits loadByPart, applies the      *)
(* transition function, then awaits append(projectId, delta); requests in  *)
(* flight interleave at the awaits.                                        *)

Requests == {"r1", "r2", "r3"}

\* What projectRepo.getProject knows: one project with two parts.
RepoProject == "proj1"
RepoParts   == {"p1", "p2"}

\* The paths requested: known parts, an unknown part, an unknown project.
RequestTargets ==
    { [projectId |-> RepoProject, partId |-> p] : p \in RepoParts \cup {"p9"} }
        \cup { [projectId |-> "nope", partId |-> "p1"] }

\* body.until of a snooze request: a DateKey, or absent.
RequestUntils == {"2025-02-25", NoDate}

NoRequest ==
    [pc |-> "idle", action |-> "none", projectId |-> "none", partId |-> NoPart,
     status |-> 0, code |-> "none", delta |-> <<>>, read |-> <<>>]

Reply(status, code, delta) == [status |-> status, code |-> code, delta |-> delta]

\* A slip: the new event kept for the append although the transition threw.
HandleRequest_DeltaOnReject(events, action, projectId, partId, until, ts) ==
    IF projectId # RepoProject THEN Reply(404, "NOT_FOUND", <<>>)
    ELSE IF partId \notin RepoParts THEN Reply(404, "NOT_FOUND", <<>>)
    ELSE IF action = "snooze" /\ until = NoDate THEN Reply(400, "INVALID_INPUT", <<>>)
    ELSE LET next == Transition(action, events, partId, until, ts)
         IN  IF next.outcome = "InvariantViolation"
             THEN Reply(409, "INVALID_TRANSITION",
                        <<LifeEv("PartApproved", partId, ts, NoDate)>>)
             ELSE Reply(200, "none", SubSeq(next.returned, Len(events) + 1, Len(next.returned)))

\* A handler up to its append: 404 for an unknown project or part, 400 for a
\* snooze without until, 409 when the transition function throws
\* InvariantViolation on the events that were loaded, else the events the
\* transition added (delta = next.slice(events.length)).
HandleRequest(events, action, projectId, partId, until, ts) ==
    IF projectId # RepoProject THEN Reply(404, "NOT_FOUND", <<>>)
    ELSE IF partId \notin RepoParts THEN Reply(404, "NOT_FOUND", <<>>)
    ELSE IF action = "snooze" /\ until = NoDate THEN Reply(400, "INVALID_INPUT", <<>>)
    ELSE LET next == Transition(action, events, partId, until, ts)
         IN  IF next.outcome = "InvariantViolation"
             THEN Reply(409, "INVALID_TRANSITION", <<>>)
             ELSE Reply(200, "none", SubSeq(next.returned, Len(events) + 1, Len(next.returned)))

\* A request arrives and runs up to the await of append: the part's events
\* are loaded and the transition is validated against them. A request that
\* is refused is answered here.
RequestLoad(r) ==
    /\ req[r].pc = "idle"
    /\ \E target \in RequestTargets, action \in Actions, until \in RequestUntils,
          ts \in RequestTimes :
          /\ action # "snooze" => until = NoDate
          /\ LET events == FileLoadByPart(RepoProject, target.partId)
                 reply  == HandleRequest(events, action, target.projectId, target.partId,
                                         until, ts)
             IN  req' = [req EXCEPT ![r] =
                            [pc |-> IF reply.delta # <<>> THEN "loaded" ELSE "done",
                             action |-> action, projectId |-> target.projectId,
                             partId |-> target.partId, status |-> reply.status,
                             code |-> reply.code, delta |-> reply.delta,
                             read |-> events]]
    /\ UNCHANGED <<fileVars, stepVars,
                   memVars, raceVars, lifeVars, cmdVars, stateVars, projVars, pureVars>>

\* deps.eventStore.append(projectId, delta) and the response: the delta goes
\* to the end of the log as it is now; the call carries no version.
RequestAppend(r) ==
    /\ req[r].pc = "loaded"
    /\ eventsFile' = [eventsFile EXCEPT ![safeId(req[r].projectId)] =
                          FileAppend(@, req[r].delta)]
    /\ req' = [req EXCEPT ![r].pc = "done"]
    /\ UNCHANGED <<snapFile, fileRes, stepVars,
                   memVars, raceVars, lifeVars, cmdVars, stateVars, projVars, pureVars>>

----------------------------------------------------------------------------
(* The same calls made on an InMemoryProjectEventStore and on a            *)
(* FileProjectEventStore. The file store's append takes (projectId,        *)
(* events): the expectedVersion of the call has no parameter to go to.     *)

BothProjects == Projects \cap FileProjectIds

BothAppendCall ==
    /\ \E projectId \in BothProjects, expectedVersion \in 0..(MaxLog + 1),
          events \in EventLists :
          /\ Append_(projectId, expectedVersion, events)
          /\ Len(eventsFile[safeId(projectId)].lines) + Len(events) <= MaxLog
          /\ eventsFile' = [eventsFile EXCEPT ![safeId(projectId)] =
                                FileAppend(eventsFile[safeId(projectId)], events)]
          /\ fileRes' = [FileCall("append", projectId) EXCEPT !.events = events,
                                                             !.outcome = "ok"]
    /\ UNCHANGED <<snapFile, raceVars, lifeVars, cmdVars, stateVars, projVars, pureVars, stepVars, reqVars>>

BothLoadByProjectCall ==
    /\ \E projectId \in BothProjects :
          /\ memRes' = [NoCall EXCEPT !.op = "loadByProject", !.projectId = projectId,
                                      !.outcome = "ok", !.before = byProject[projectId],
                                      !.result = MemLoadByProject(projectId)]
          /\ fileRes' = [FileCall("loadByProject", projectId) EXCEPT
                             !.outcome = "ok", !.result = FileLoadByProject(projectId)]
    /\ UNCHANGED <<byProject, eventsFile, snapFile, raceVars, lifeVars, cmdVars, stateVars, projVars, pureVars, stepVars, reqVars>>

BothLoadByPartCall ==
    /\ \E projectId \in BothProjects, partId \in Parts :
          /\ memRes' = [NoCall EXCEPT !.op = "loadByPart", !.projectId = projectId,
                                      !.partId = partId,
                                      !.outcome = "ok", !.before = byProject[projectId],
                                      !.result = MemLoadByPart(projectId, partId)]
          /\ fileRes' = [FileCall("loadByPart", projectId) EXCEPT
                             !.partId = partId, !.outcome = "ok",
                             !.result = FileLoadByPart(projectId, partId)]
    /\ UNCHANGED <<byProject, eventsFile, snapFile, raceVars, lifeVars, cmdVars, stateVars, projVars, pureVars, stepVars, reqVars>>

BothHasCommandCall ==
    /\ \E projectId \in BothProjects, commandId \in CommandIds :
          /\ memRes' = [NoCall EXCEPT !.op = "hasCommand", !.projectId = projectId,
                                      !.commandId = commandId,
                                      !.outcome = "ok", !.before = byProject[projectId],
                                      !.found = MemHasCommand(projectId, commandId)]
          /\ fileRes' = [FileCall("hasCommand", projectId) EXCEPT
                             !.commandId = commandId, !.outcome = "ok",
                             !.found = FileHasCommand(projectId, commandId)]
    /\ UNCHANGED <<byProject, eventsFile, snapFile, raceVars, lifeVars, cmdVars, stateVars, projVars, pureVars, stepVars, reqVars>>

----------------------------------------------------------------------------
(* Specifications *)

MemInit ==
    /\ byProject = [p \in Projects |-> <<>>]
    /\ memRes = NoCall

RaceInit ==
    /\ wpc = [w \in Writers |-> "idle"]
    /\ wproj = [w \in Writers |-> "proj1"]
    /\ wver = [w \in Writers |-> 0]
    /\ wevents = [w \in Writers |-> <<>>]
    /\ wout = [w \in Writers |-> "none"]

LifeInit ==
    /\ stream = <<>>
    /\ lifeRes = NoLifeCall

FileInit ==
    /\ eventsFile = [f \in FileIds |-> NoEventsFile]
    /\ snapFile = [f \in FileIds |-> NoSnapshotFile]
    /\ fileRes = NoFileCall

CmdInit == cmdRes = NoCommandCall

StateInit == stateRes = NoStateCall

ProjInit == projRes = NoProjCall

PureInit ==
    /\ dashRes = NoDashCall
    /\ progRes = NoProgCall
    /\ treeRes = NoTreeCall
    /\ calRes = NoCalCall

ReqInit == req = [r \in Requests |-> NoRequest]

StepInit ==
    /\ app = NoAppend
    /\ comp = NoCompact
    /\ tmpFile = NoSnapshotFile
    /\ hc = NoHasCommand

Init ==
    /\ MemInit /\ RaceInit /\ LifeInit /\ FileInit /\ CmdInit /\ StateInit /\ ProjInit
    /\ PureInit /\ StepInit /\ ReqInit

Next ==
    \/ MemAppendCall
    \/ MemLoadByProjectCall
    \/ MemLoadByPartCall
    \/ MemHasCommandCall
    \/ MemCompactCall

Spec == Init /\ [][Next]_vars

RaceNext ==
    \/ \E w \in Writers : WriterRead(w)
    \/ \E w \in Writers : WriterAppend(w)

SpecRace == Init /\ [][RaceNext]_vars

LifeAnyInit ==
    /\ MemInit
    /\ RaceInit
    /\ stream \in SeqsUpTo(LifeEventPool, MaxStream)
    /\ lifeRes = NoLifeCall
    /\ FileInit
    /\ CmdInit
    /\ StateInit
    /\ ProjInit
    /\ PureInit
    /\ StepInit
    /\ ReqInit

LifeNext ==
    \/ ApprovePartCall
    \/ CompletePartCall
    \/ SnoozePartCall
    \/ ReopenPartCall
    \/ GetPartLifecycleStateCall

SpecLife == LifeAnyInit /\ [][LifeNext]_vars

FileNext ==
    \/ FileAppendCall
    \/ FileLoadByProjectCall
    \/ FileLoadByPartCall
    \/ FileCompactCall

SpecFile == Init /\ [][FileNext]_vars

BothNext ==
    \/ BothAppendCall
    \/ BothLoadByProjectCall
    \/ BothLoadByPartCall
    \/ BothHasCommandCall

SpecBoth == Init /\ [][BothNext]_vars

CmdNext == HandleCommandCall

StateNext ==
    \/ ComputePartStateCall
    \/ PartStateOverTimeCall
    \/ IsAtOrPastCutoffCall

SpecState == Init /\ [][StateNext]_vars

ProjNext == ProjectCall

SpecProj == Init /\ [][ProjNext]_vars

SpecCmd == Init /\ [][CmdNext]_vars

ProgNext ==
    \/ ProjectPartPaceCall
    \/ ProjectProgressCall
    \/ ComputeStageProgressCall

SpecProg == Init /\ [][ProgNext]_vars

TreeNext == ValidateProjectSnapshotCall

SpecTree == Init /\ [][TreeNext]_vars

CalNext ==
    \/ IsWorkingDayCall
    \/ DiffWorkingDaysCall
    \/ AddWorkingDaysCall
    \/ RoundTripCall
    \/ MalformedKeyCall
    \/ DiffLoopStart
    \/ DiffLoopStep

SpecCal == Init /\ [][CalNext]_vars

StepNext ==
    \/ StepAppendOpen
    \/ StepAppendWrite
    \/ StepAppendClose
    \/ StepCompactBegin
    \/ StepCompact
    \/ StepCrash
    \/ StepHasCommand

SpecStep == Init /\ [][StepNext]_vars

ReqNext ==
    \/ \E r \in Requests : RequestLoad(r)
    \/ \E r \in Requests : RequestAppend(r)

SpecReq == Init /\ [][ReqNext]_vars

DashNext == ProjectDashboardStateCall

SpecDash == Init /\ [][DashNext]_vars

----------------------------------------------------------------------------
(* Claims about InMemoryProjectEventStore *)

StripVersion(events) == [i \in 1..Len(events) |-> [events[i] EXCEPT !.version = 0]]

\* C1: append fails with ConcurrencyError if and only if expectedVersion
\* differs from the length of the project's log, for every events list, the
\* empty one included; a failed append leaves the log as it was, and an empty
\* list with a matching expectedVersion succeeds and leaves the log as it was.
C1_AppendFailsIffVersionDiffers ==
    memRes.op = "append" =>
        /\ memRes.outcome \in {"ok", "ConcurrencyError"}
        /\ (memRes.outcome = "ConcurrencyError")
               <=> (memRes.expectedVersion # Len(memRes.before))
        /\ memRes.outcome = "ConcurrencyError"
               => byProject[memRes.projectId] = memRes.before
        /\ (memRes.outcome = "ok" /\ memRes.events = <<>>)
               => byProject[memRes.projectId] = memRes.before

\* An empty events list was rejected on a non-empty log.
C1_Witness ==
    /\ memRes.op = "append"
    /\ memRes.events = <<>>
    /\ memRes.outcome = "ConcurrencyError"
    /\ Len(memRes.before) > 0

\* C3: the k-th event of every project's log carries version k, whatever
\* version the caller put in the event, and a successful append of n events
\* onto a log of length L assigns L+1 .. L+n in order.
C3_VersionIsPosition ==
    /\ \A p \in Projects : \A k \in 1..Len(byProject[p]) : byProject[p][k].version = k
    /\ (memRes.op = "append" /\ memRes.outcome = "ok") =>
           \A i \in 1..Len(memRes.events) :
               /\ Len(memRes.before) + i <= Len(byProject[memRes.projectId])
               /\ byProject[memRes.projectId][Len(memRes.before) + i].version
                      = Len(memRes.before) + i

\* An event the caller numbered 7 was stored second in a log.
C3_Witness ==
    /\ memRes.op = "append"
    /\ memRes.outcome = "ok"
    /\ Len(memRes.before) = 1
    /\ Len(memRes.events) = 1
    /\ memRes.events[1].version = 7
    /\ byProject[memRes.projectId][2].version = 2

----------------------------------------------------------------------------
(* Claims about racing writers *)

\* Writers that read version v of project p and have called append.
DoneAt(p, v) == { w \in Writers : wpc[w] = "done" /\ wproj[w] = p /\ wver[w] = v }
ReadAt(p, v) == { w \in Writers : wpc[w] # "idle" /\ wproj[w] = p /\ wver[w] = v }

\* C2 as stated: when two or more writers read the same version v and each
\* has called append(projectId, v, events), exactly one of the appends
\* succeeded and every other failed with ConcurrencyError.
C2_ExactlyOneWinner ==
    \A p \in Projects : \A v \in 0..MaxLog :
        (Cardinality(ReadAt(p, v)) >= 2 /\ ReadAt(p, v) = DoneAt(p, v)) =>
            /\ Cardinality({ w \in DoneAt(p, v) : wout[w] = "ok" }) = 1
            /\ \A w \in DoneAt(p, v) : wout[w] \in {"ok", "ConcurrencyError"}

NonEmptyDoneAt(p, v) == { w \in DoneAt(p, v) : wevents[w] # <<>> }

\* C2 amended: among the writers that read the same version v and called
\* append with a non-empty events list, exactly one succeeded and every
\* other failed with ConcurrencyError, and the log holds the winner's
\* events, in order, at positions v+1 .. v+n.
C2_ExactlyOneNonEmptyWinner ==
    \A p \in Projects : \A v \in 0..MaxLog :
        LET S       == NonEmptyDoneAt(p, v)
            winners == { w \in S : wout[w] = "ok" }
        IN  S # {} =>
               /\ Cardinality(winners) = 1
               /\ \A w \in S \ winners : wout[w] = "ConcurrencyError"
               /\ \A w \in winners :
                      /\ Len(byProject[p]) >= v + Len(wevents[w])
                      /\ StripVersion(SubSeq(byProject[p], v + 1, v + Len(wevents[w])))
                             = StripVersion(wevents[w])

\* Two writers read the same version, both appended a non-empty list.
C2_Witness ==
    \E p \in Projects : \E v \in 0..MaxLog :
        /\ Cardinality(NonEmptyDoneAt(p, v)) >= 2
        /\ \E w \in NonEmptyDoneAt(p, v) : wout[w] = "ConcurrencyError"

----------------------------------------------------------------------------
(* Claims about the part lifecycle state machine *)

TransitionOps == {"approvePart", "completePart", "snoozePart", "reopenPart"}

TargetOf(op) ==
    CASE op = "approvePart"  -> "Approved"
      [] op = "completePart" -> "Completed"
      [] op = "reopenPart"   -> "Active"
      [] op = "snoozePart"   -> "Active"

\* C6: a successful transition leaves the part in its target state for every
\* timestamp argument: Approved after approvePart (and a second approvePart
\* on the returned list then fails), Completed after completePart, Active
\* after reopenPart.
C6_TransitionReachesTarget ==
    (lifeRes.op \in {"approvePart", "completePart", "reopenPart"} /\ lifeRes.outcome = "ok") =>
        /\ getPartLifecycleState(lifeRes.returned, lifeRes.partId) = TargetOf(lifeRes.op)
        /\ lifeRes.op = "approvePart" =>
               \A t \in Times :
                   approvePart(lifeRes.returned, lifeRes.partId, t).outcome
                       = "InvariantViolation"

\* The positions of partId's events, and the one replayed last: the latest
\* timestamp, and among equal timestamps the later position.
PositionsOf(events, partId) == { i \in 1..Len(events) : events[i].partId = partId }

LastReplayed(events, partId) ==
    CHOOSE i \in PositionsOf(events, partId) :
        \A j \in PositionsOf(events, partId) :
            \/ events[j].timestamp < events[i].timestamp
            \/ (events[j].timestamp = events[i].timestamp /\ j <= i)

StateSetBy(type) ==
    CASE type = "PartApproved"  -> "Approved"
      [] type = "PartCompleted" -> "Completed"
      [] type = "PartReopened"  -> "Active"
      [] type = "PartSnoozed"   -> "Active"

\* C7: projectLifecycleState looks only at the events of partId, replays them
\* by ascending timestamp with equal timestamps in sequence order, and returns
\* the state set by the event replayed last; Planned when the part has none.
C7_StateOfLastReplayed ==
    lifeRes.op = "getPartLifecycleState" =>
        lifeRes.state =
            IF PositionsOf(lifeRes.before, lifeRes.partId) = {}
            THEN "Planned"
            ELSE StateSetBy(lifeRes.before[LastReplayed(lifeRes.before, lifeRes.partId)].type)

\* The state was asked of a list whose last event of the part is not the one
\* replayed last, and that holds an event of another part.
C7_Witness ==
    /\ lifeRes.op = "getPartLifecycleState"
    /\ \E i, j \in PositionsOf(lifeRes.before, lifeRes.partId) :
          /\ i < j
          /\ lifeRes.before[i].timestamp > lifeRes.before[j].timestamp
          /\ lifeRes.before[i].type # lifeRes.before[j].type
          /\ LastReplayed(lifeRes.before, lifeRes.partId) = i
    /\ \E k \in 1..Len(lifeRes.before) : lifeRes.before[k].partId # lifeRes.partId

TypeOf(op) ==
    CASE op = "approvePart"  -> "PartApproved"
      [] op = "completePart" -> "PartCompleted"
      [] op = "reopenPart"   -> "PartReopened"
      [] op = "snoozePart"   -> "PartSnoozed"

\* C8: a successful transition returns the input list followed by exactly one
\* new event of the operation's type with the given partId and timestamp
\* (and, for snooze, the notificationDate), and the caller's list is the
\* returned one; a failed transition appends nothing.
C8_AppendsOneEvent ==
    lifeRes.op \in TransitionOps =>
        /\ lifeRes.outcome = "ok" =>
               /\ Len(lifeRes.returned) = Len(lifeRes.before) + 1
               /\ SubSeq(lifeRes.returned, 1, Len(lifeRes.before)) = lifeRes.before
               /\ LET e == lifeRes.returned[Len(lifeRes.returned)]
                  IN  /\ e.type = TypeOf(lifeRes.op)
                      /\ e.partId = lifeRes.partId
                      /\ e.timestamp = lifeRes.timestamp
                      /\ e.notificationDate = lifeRes.notificationDate
                      /\ lifeRes.op = "snoozePart" => e.notificationDate \in NotificationDates
               /\ stream = lifeRes.returned
        /\ lifeRes.outcome # "ok" =>
               /\ ~lifeRes.hasReturn
               /\ stream = lifeRes.before

\* snoozePart extended a non-empty list.
C8_Witness ==
    /\ lifeRes.op = "snoozePart"
    /\ lifeRes.outcome = "ok"
    /\ Len(lifeRes.before) >= 1
    /\ lifeRes.returned[Len(lifeRes.returned)].notificationDate = "2025-02-25"

----------------------------------------------------------------------------
(* Claims about FileProjectEventStore *)

\* C10: after compact(projectId, snapshot) returns, loadByProject(projectId)
\* returns exactly the events of the log as it was before the compaction
\* whose timestamp is greater than snapshot.lastEventTimestamp, in their
\* original order.
C10_CompactKeepsLaterEvents ==
    (fileRes.op = "compact" /\ fileRes.outcome = "ok") =>
        FileLoadByProject(fileRes.projectId)
            = SelectSeq(fileRes.beforeStored,
                        LAMBDA e : e.timestamp > fileRes.snapshot.lastEventTimestamp)

C12_MismatchTouchesNothing ==
    [][ (fileRes'.op = "compact" /\ fileRes'.snapshot.projectId # fileRes'.projectId) =>
            /\ fileRes'.outcome = "Error"
            /\ eventsFile' = eventsFile
            /\ snapFile' = snapFile
      ]_vars

\* A mismatching snapshot was refused for a project that has events in its
\* log and a snapshot file from an earlier compaction.
C12_Witness ==
    /\ fileRes.op = "compact"
    /\ fileRes.snapshot.projectId # fileRes.projectId
    /\ fileRes.outcome = "Error"
    /\ fileRes.beforeStored # <<>>
    /\ eventsFile[safeId(fileRes.projectId)].lines # <<>>
    /\ snapFile[safeId(fileRes.projectId)].exists

----------------------------------------------------------------------------
(* Claims about command handling *)

EventsOfCommand(list, commandId) == { k \in 1..Len(list) : list[k].commandId = commandId }

----------------------------------------------------------------------------
(* Claims about the two stores side by side *)

\* C14: for every sequence of append, loadByProject, loadByPart and
\* hasCommand calls without compaction, the file-backed store and the
\* in-memory store return the same results and raise the same errors,
\* the ConcurrencyError on a stale expectedVersion and the store-assigned
\* version of each event included.
C14_StoresAgree ==
    (memRes.op # "none" /\ memRes.op = fileRes.op /\ memRes.projectId = fileRes.projectId) =>
        /\ memRes.outcome = fileRes.outcome
        /\ memRes.result = fileRes.result
        /\ memRes.found = fileRes.found
        /\ MemLoadByProject(memRes.projectId) = FileLoadByProject(memRes.projectId)

\* C15: projects are isolated in the file store: an append or compact on one
\* projectId never changes what loadByProject, loadByPart or hasCommand
\* return for any other projectId (distinct projectIds use separate files).
C15_ProjectsIsolated ==
    [][ fileRes'.op \in {"append", "compact"} =>
          \A q \in FileProjectIds \ {fileRes'.projectId} :
              /\ FileLoadByProject(q)' = FileLoadByProject(q)
              /\ \A partId \in Parts :
                     FileLoadByPart(q, partId)' = FileLoadByPart(q, partId)
              /\ \A c \in CommandIds :
                     FileHasCommand(q, c)' = FileHasCommand(q, c)
      ]_vars

----------------------------------------------------------------------------
(* Claims about the part state *)

\* The instant of 00:01:00 local time on the date, and the local day number
\* and second of the day of an instant.
CutoffInstant(date, timezone) ==
    DateUTC(parseDateKey(date).y, parseDateKey(date).m, parseDateKey(date).d) * 86400
        + 60 - TzOffset(timezone)

LocalDay(now, timezone)    == (now + TzOffset(timezone)) \div 86400
LocalSecond(now, timezone) == (now + TzOffset(timezone)) % 86400
DayOf(date) == DateUTC(parseDateKey(date).y, parseDateKey(date).m, parseDateKey(date).d)

PartStates == {"NotDue", "Due", "Overdue", "Snoozed", "Approved"}

\* C16: computePartState classifies by a fixed precedence: approved gives
\* Approved at every instant; otherwise now before cutoff(endDate) gives
\* NotDue even when a snooze is set; otherwise a notificationDate with now
\* before its cutoff gives Snoozed even when the part is past the overdue
\* cutoff; otherwise Overdue or Due. One of the five states is returned.
C16_StatePrecedence ==
    stateRes.op = "computePartState" =>
        LET in == stateRes.inputs
            Before(date) == in.now < CutoffInstant(date, in.timezone)
        IN  /\ stateRes.state \in PartStates
            /\ in.approved => stateRes.state = "Approved"
            /\ (~in.approved /\ Before(in.endDate)) => stateRes.state = "NotDue"
            /\ (~in.approved /\ ~Before(in.endDate) /\ in.notificationDate # NoDateKey
                    /\ Before(in.notificationDate)) => stateRes.state = "Snoozed"
            /\ (~in.approved /\ ~Before(in.endDate)
                    /\ (in.notificationDate = NoDateKey \/ ~Before(in.notificationDate)))
                   => stateRes.state \in {"Overdue", "Due"}

\* A part with a snooze that has not expired was asked before cutoff(endDate).
C16_Witness ==
    /\ stateRes.op = "computePartState"
    /\ ~stateRes.inputs.approved
    /\ stateRes.inputs.notificationDate # NoDateKey
    /\ stateRes.inputs.now < CutoffInstant(stateRes.inputs.notificationDate,
                                           stateRes.inputs.timezone)
    /\ stateRes.inputs.now < CutoffInstant(stateRes.inputs.endDate, stateRes.inputs.timezone)
    /\ stateRes.state = "NotDue"

\* C17: the cutoff of a date is 00:01:00 local time on that date: an instant
\* is before the cutoff when its local date is earlier than the date or its
\* local time on the date is 00:00:00 to 00:00:59, and at or after it from
\* 00:01:00 on the date and on every later local date.
C17_CutoffIsOneMinutePastMidnight ==
    stateRes.op = "isAtOrPastCutoff" =>
        LET now == stateRes.inputs.now
            tz  == stateRes.inputs.timezone
            day == LocalDay(now, tz)
            sec == LocalSecond(now, tz)
        IN  /\ ~stateRes.past <=>
                   \/ day < DayOf(stateRes.dateOnly)
                   \/ (day = DayOf(stateRes.dateOnly) /\ sec \in 0..59)
            /\ stateRes.past <=> now >= CutoffInstant(stateRes.dateOnly, tz)

\* The cutoff was asked at 00:00:59 local time on the date, in Stockholm.
C17_Witness ==
    /\ stateRes.op = "isAtOrPastCutoff"
    /\ stateRes.inputs.timezone = "Europe/Stockholm"
    /\ LocalDay(stateRes.inputs.now, "Europe/Stockholm") = DayOf(stateRes.dateOnly)
    /\ LocalSecond(stateRes.inputs.now, "Europe/Stockholm") = 59
    /\ ~stateRes.past

\* The dates after the window's first, in order, with the weekend days and
\* the Swedish holidays among them (Good Friday, Easter Sunday, Easter Monday).
AprilDates    == [i \in 1..14 |-> 20250416 + i]
AprilWeekends == {20250419, 20250420, 20250426, 20250427}
AprilHolidays == {20250418, 20250420, 20250421}

IsWorkingDate(date, cal) ==
    IF \E i \in 1..Len(cal.overrides) : cal.overrides[i].date = date
    THEN \E i \in 1..Len(cal.overrides) :
             cal.overrides[i].date = date /\ cal.overrides[i].isWorkingDay
    ELSE date \notin AprilWeekends \cup AprilHolidays

FirstWorkingDayAfter(endDate, cal) ==
    AprilDates[CHOOSE i \in 1..Len(AprilDates) :
                   /\ AprilDates[i] > endDate
                   /\ IsWorkingDate(AprilDates[i], cal)
                   /\ \A j \in 1..(i - 1) :
                          AprilDates[j] > endDate => ~IsWorkingDate(AprilDates[j], cal)]

\* C18: a part that is not approved and not snoozed is Overdue exactly from
\* the cutoff of the first working day after endDate according to the
\* calendar, and Due from cutoff(endDate) until then, throughout the weekend
\* days, holidays and non-working overrides that follow endDate.
C18_OverdueAtFirstWorkingDay ==
    (/\ stateRes.op = "computePartState"
     /\ ~stateRes.inputs.approved
     /\ \/ stateRes.inputs.notificationDate = NoDateKey
        \/ stateRes.inputs.now >= CutoffInstant(stateRes.inputs.notificationDate,
                                                 stateRes.inputs.timezone)) =>
        LET in      == stateRes.inputs
            overdue == CutoffInstant(FirstWorkingDayAfter(in.endDate, stateRes.calendar),
                                     in.timezone)
        IN  /\ stateRes.state = "Overdue" <=> in.now >= overdue
            /\ stateRes.state = "Due" <=>
                   (in.now >= CutoffInstant(in.endDate, in.timezone) /\ in.now < overdue)

\* A part that ended on Thursday 04-17 was asked at noon of Easter Monday,
\* after Good Friday and the weekend, and is Due.
C18_Witness ==
    /\ stateRes.op = "computePartState"
    /\ ~stateRes.inputs.approved
    /\ stateRes.inputs.notificationDate = NoDateKey
    /\ stateRes.inputs.endDate = 20250417
    /\ stateRes.calendar.overrides = <<>>
    /\ LocalDay(stateRes.inputs.now, stateRes.inputs.timezone) = DayOf(20250421)
    /\ LocalSecond(stateRes.inputs.now, stateRes.inputs.timezone) = 43200
    /\ stateRes.state = "Due"

----------------------------------------------------------------------------
(* Claims about the projections *)

\* The position of the part's event of one of the types that is replayed
\* last: the latest timestamp, and among equal timestamps the later position.
PositionsOfTypes(events, partId, types) ==
    { i \in 1..Len(events) : events[i].partId = partId /\ events[i].type \in types }

LastOfTypes(events, partId, types) ==
    CHOOSE i \in PositionsOfTypes(events, partId, types) :
        \A j \in PositionsOfTypes(events, partId, types) :
            \/ events[j].timestamp < events[i].timestamp
            \/ (events[j].timestamp = events[i].timestamp /\ j <= i)

Decisions == {"PartApproved", "PartReopened"}

LatestDecisionIsApproval(events, partId) ==
    /\ PositionsOfTypes(events, partId, Decisions) # {}
    /\ events[LastOfTypes(events, partId, Decisions)].type = "PartApproved"

ItemsOf(items, partId) == { i \in 1..Len(items) : items[i].partId = partId }

\* C19: approved parts never enter Tasks: when the part's latest PartApproved
\* or PartReopened event (timestamp order, ties by sequence) is PartApproved,
\* projectPartState is Approved and projectDashboardState has no item for the
\* part, at every instant.
C19_ApprovedNeverInTasks ==
    projRes.op = "project" =>
        \A p \in Parts :
            LatestDecisionIsApproval(projRes.events, p) =>
                /\ projRes.states[p] = "Approved"
                /\ ItemsOf(projRes.items, p) = {}

\* The approval comes first in the list but has the later timestamp, and the
\* project is read after the part's overdue cutoff.
C19_Witness ==
    /\ projRes.op = "project"
    /\ Len(projRes.events) >= 2
    /\ projRes.events[1].type = "PartApproved"
    /\ projRes.events[1].partId = "p1"
    /\ projRes.events[2].type = "PartReopened"
    /\ projRes.events[2].partId = "p1"
    /\ projRes.events[2].timestamp < projRes.events[1].timestamp
    /\ LatestDecisionIsApproval(projRes.events, "p1")
    /\ projRes.now >= CutoffInstant(20250423, projRes.timezone)
    /\ projRes.states["p1"] = "Approved"

Snoozes == {"PartSnoozed"}

EndDateOf(partId) ==
    ProjParts[CHOOSE i \in 1..Len(ProjParts) : ProjParts[i].partId = partId].endDate

\* What a not-approved part past cutoff(endDate) shows while its snooze to D
\* runs and after it ran out.
SnoozeShows(p, D) ==
    /\ Cardinality(ItemsOf(projRes.items, p)) = 1
    /\ \A i \in ItemsOf(projRes.items, p) :
           projRes.items[i].status =
               IF projRes.now < CutoffInstant(D, projRes.timezone)
               THEN "Snoozed" ELSE "ActionRequired"

\* The event lists the transition functions build from the empty list: each
\* event is the one its transition appends to the events before it.
ActionOf(type) ==
    CASE type = "PartApproved"  -> "approve"
      [] type = "PartCompleted" -> "complete"
      [] type = "PartSnoozed"   -> "snooze"
      [] type = "PartReopened"  -> "reopen"

BuiltByTransitions(events) ==
    \A k \in 1..Len(events) :
        Transition(ActionOf(events[k].type), SubSeq(events, 1, k - 1), events[k].partId,
                   events[k].notificationDate, events[k].timestamp).outcome = "ok"

\* C20 as stated, on the event lists the transition functions build: for a
\* not-approved part that is past cutoff(endDate) and whose latest snooze has
\* notificationDate D, the dashboard item has status Snoozed at every instant
\* before cutoff(D) and ActionRequired at every instant at or after cutoff(D).
C20_SnoozeExpiry ==
    (projRes.op = "project" /\ BuiltByTransitions(projRes.events)) =>
        \A p \in Parts :
            (/\ ~LatestDecisionIsApproval(projRes.events, p)
             /\ projRes.now >= CutoffInstant(EndDateOf(p), projRes.timezone)
             /\ PositionsOfTypes(projRes.events, p, Snoozes) # {}) =>
                SnoozeShows(p, projRes.events[LastOfTypes(projRes.events, p, Snoozes)]
                                   .notificationDate)

\* The part's latest snooze is replayed after every PartApproved and
\* PartReopened event of the part.
SnoozeStands(events, p) ==
    /\ PositionsOfTypes(events, p, Snoozes) # {}
    /\ LET s == LastOfTypes(events, p, Snoozes)
       IN  \A j \in PositionsOfTypes(events, p, Decisions) :
               \/ events[j].timestamp < events[s].timestamp
               \/ (events[j].timestamp = events[s].timestamp /\ j < s)

\* C20 amended: the same, on every event list, for a part whose latest snooze
\* is not followed (in timestamp order, ties by sequence) by a PartApproved
\* or PartReopened event.
C20_StandingSnoozeExpiry ==
    projRes.op = "project" =>
        \A p \in Parts :
            (/\ ~LatestDecisionIsApproval(projRes.events, p)
             /\ projRes.now >= CutoffInstant(EndDateOf(p), projRes.timezone)
             /\ SnoozeStands(projRes.events, p)) =>
                SnoozeShows(p, projRes.events[LastOfTypes(projRes.events, p, Snoozes)]
                                   .notificationDate)

\* A part snoozed twice, the snooze with the later timestamp first in the
\* list, read after the later snooze ran out and before the earlier one would.
C20_Witness ==
    /\ projRes.op = "project"
    /\ Len(projRes.events) = 2
    /\ projRes.events[1] = ProjEv("PartSnoozed", "p1", 1001, 20250420)
    /\ projRes.events[2] = ProjEv("PartSnoozed", "p1", 1000, 20250424)
    /\ projRes.now >= CutoffInstant(20250420, projRes.timezone)
    /\ projRes.now < CutoffInstant(20250424, projRes.timezone)
    /\ \E i \in ItemsOf(projRes.items, "p1") : projRes.items[i].status = "ActionRequired"

----------------------------------------------------------------------------
(* Claims about the dashboard task list *)

PermutationsOf(parts) ==
    { [i \in 1..Len(parts) |-> parts[q[i]]] :
        q \in { f \in [1..Len(parts) -> 1..Len(parts)] :
                  \A i, j \in 1..Len(parts) : i # j => f[i] # f[j] } }

DashCalendar == defaultSwedishProjectCalendar(<<>>)

\* C21: the items of projectDashboardState are sorted by status
\* (ActionRequired before Snoozed), then endDate ascending, then partId
\* ascending, and for parts with different partIds the list is the same
\* for every ordering of the input parts.
C21_SortedAndOrderIndependent ==
    dashRes.op = "projectDashboardState" =>
        LET items == dashRes.items
        IN  /\ \A i, j \in 1..Len(items) : i < j =>
                  \/ items[i].status = "ActionRequired" /\ items[j].status = "Snoozed"
                  \/ /\ items[i].status = items[j].status
                     /\ items[i].endDate < items[j].endDate
                  \/ /\ items[i].status = items[j].status
                     /\ items[i].endDate = items[j].endDate
                     /\ PartIdRank(items[i].partId) <= PartIdRank(items[j].partId)
            /\ \A parts \in PermutationsOf(dashRes.parts) :
                  projectDashboardState(parts, dashRes.events, dashRes.now,
                                        dashRes.timezone, DashCalendar) = items

DashStateOf(part) ==
    projectPartState(dashRes.events, part.partId, part.endDate, dashRes.now,
                     dashRes.timezone, DashCalendar)

DashItemsOf(partId) == { i \in 1..Len(dashRes.items) : dashRes.items[i].partId = partId }

\* C22: projectDashboardState holds one item for exactly the input parts
\* whose PartState is Due, Overdue or Snoozed; the item has status Snoozed
\* iff the state is Snoozed and ActionRequired otherwise, overdue iff the
\* state is Overdue, and the part's own partId and endDate.
C22_ItemsAreThePartsInTasks ==
    dashRes.op = "projectDashboardState" =>
        /\ \A k \in 1..Len(dashRes.parts) :
              LET part  == dashRes.parts[k]
                  state == DashStateOf(part)
              IN  IF state \in {"Due", "Overdue", "Snoozed"}
                  THEN /\ Cardinality(DashItemsOf(part.partId)) = 1
                       /\ \A i \in DashItemsOf(part.partId) :
                             /\ dashRes.items[i].status =
                                    (IF state = "Snoozed" THEN "Snoozed" ELSE "ActionRequired")
                             /\ dashRes.items[i].overdue = (state = "Overdue")
                             /\ dashRes.items[i].endDate = part.endDate
                  ELSE DashItemsOf(part.partId) = {}
        /\ \A i \in 1..Len(dashRes.items) :
              \E k \in 1..Len(dashRes.parts) :
                  dashRes.parts[k].partId = dashRes.items[i].partId

\* Three parts in one list: one snoozed, one overdue, one approved.
C22_Witness ==
    /\ dashRes.op = "projectDashboardState"
    /\ Len(dashRes.parts) = 3
    /\ \E a, b, c \in 1..3 :
          /\ DashStateOf(dashRes.parts[a]) = "Snoozed"
          /\ DashStateOf(dashRes.parts[b]) = "Overdue"
          /\ DashStateOf(dashRes.parts[c]) = "Approved"
    /\ Len(dashRes.items) = 2

----------------------------------------------------------------------------
(* Claims about pace and progress *)

CompletionsOf(events, partId) ==
    { i \in 1..Len(events) : events[i].partId = partId /\ events[i].type = "PartCompleted" }

\* The local date of the completion with the smallest timestamp.
FirstCompletionDate(events, partId, timezone) ==
    LET first == CHOOSE i \in CompletionsOf(events, partId) :
                     \A j \in CompletionsOf(events, partId) :
                         events[i].timestamp <= events[j].timestamp
    IN  toKeyUTC(LocalDay(events[first].timestamp, timezone))

\* The working days of the calendar among the dates d with lo < d <= hi, and
\* among those with lo <= d < hi (April 2025).
WorkingDatesAfter(lo, hi, cal) ==
    Cardinality({ d \in 20250416..20250430 : lo < d /\ d <= hi /\ IsWorkingDate(d, cal) })

WorkingDatesFrom(lo, hi, cal) ==
    Cardinality({ d \in 20250416..20250430 : lo <= d /\ d < hi /\ IsWorkingDate(d, cal) })

\* C23: projectPartPace is null iff the part has no PartCompleted event;
\* otherwise it takes the completion with the smallest timestamp and is the
\* signed number of working days of the project calendar (weekend days,
\* computed holidays and overrides not counted) between endDate and the
\* completion's local date, counted with either end of the range left out.
C23_PaceCountsCalendarWorkingDays ==
    progRes.op = "projectPartPace" =>
        LET events == progRes.events
            cal    == progRes.calendar
            endD   == progRes.endDate
        IN  /\ progRes.pace.isNull <=> CompletionsOf(events, progRes.partId) = {}
            /\ CompletionsOf(events, progRes.partId) # {} =>
                  LET done == FirstCompletionDate(events, progRes.partId, progRes.timezone)
                  IN  IF done = endD THEN progRes.pace.value = 0
                      ELSE IF done > endD
                      THEN \/ progRes.pace.value = WorkingDatesAfter(endD, done, cal)
                           \/ progRes.pace.value = WorkingDatesFrom(endD, done, cal)
                      ELSE \/ progRes.pace.value = 0 - WorkingDatesAfter(done, endD, cal)
                           \/ progRes.pace.value = 0 - WorkingDatesFrom(done, endD, cal)

ProgCalendar == defaultSwedishProjectCalendar(<<>>)

\* The bucket of a pace: null -> NotCompleted, below -1 -> Early, from -1 to
\* 1 -> OnTime, above 1 -> Delayed.
BucketOf(pace) ==
    IF pace.isNull THEN "NotCompleted"
    ELSE IF pace.value < 0 - 1 THEN "Early"
    ELSE IF pace.value > 1 THEN "Delayed"
    ELSE "OnTime"

ProgPaceOf(part) ==
    projectPartPace(progRes.events, part.partId, part.endDate, ProgCalendar, "UTC")

PartsInBucket(bucket) ==
    { i \in 1..Len(progRes.snapshot.parts) :
        BucketOf(ProgPaceOf(progRes.snapshot.parts[i])) = bucket }

\* C24: projectProgress counts every part in the one bucket of its pace, so
\* the four counts add up to the number of parts, and percent is
\* (onTime + delayed + early) / number of parts; all five values are 0 when
\* there are no parts.
C24_ProgressTalliesEveryPart ==
    progRes.op = "projectProgress" =>
        LET r == progRes.progress
            n == Len(progRes.snapshot.parts)
        IN  /\ r.onTime = Cardinality(PartsInBucket("OnTime"))
            /\ r.delayed = Cardinality(PartsInBucket("Delayed"))
            /\ r.early = Cardinality(PartsInBucket("Early"))
            /\ r.notCompleted = Cardinality(PartsInBucket("NotCompleted"))
            /\ r.onTime + r.delayed + r.early + r.notCompleted = n
            /\ r.percent.den > 0
            /\ r.percent.num * n = (r.onTime + r.delayed + r.early) * r.percent.den
            /\ n = 0 => r.percent.num = 0

\* A project with a part in each of three buckets, one of them with pace 1.
C24_Witness ==
    /\ progRes.op = "projectProgress"
    /\ progRes.progress.onTime = 1
    /\ progRes.progress.delayed = 1
    /\ progRes.progress.notCompleted = 1
    /\ \E i \in 1..Len(progRes.snapshot.parts) :
          ProgPaceOf(progRes.snapshot.parts[i]) = Pace(1)

\* The stage is sid itself or has sid among its ancestors.
RECURSIVE IsInSubtreeOf(_, _, _)
IsInSubtreeOf(stages, id, sid) ==
    \/ id = sid
    \/ \E i \in 1..Len(stages) :
          /\ stages[i].id = id
          /\ stages[i].parentStageId # NoStage
          /\ IsInSubtreeOf(stages, stages[i].parentStageId, sid)

PartsUnder(sid) ==
    { i \in 1..Len(progRes.snapshot.parts) :
        IsInSubtreeOf(progRes.snapshot.stages, progRes.snapshot.parts[i].stageId, sid) }

\* C25: computeStageProgress returns as total the number of parts on the
\* stage or a descendant of it, as completed the number of those with a
\* completion status other than NotCompleted, and percent = completed /
\* total (0 when total is 0); completed never exceeds total, and for a
\* stage whose subtree holds every part it equals onTime + delayed + early
\* of projectProgress.
C25_StageProgressCountsSubtree ==
    progRes.op = "computeStageProgress" =>
        LET r     == progRes.stage
            under == PartsUnder(progRes.stageId)
            whole == projectProgress(progRes.snapshot, progRes.events, ProgCalendar, "UTC")
        IN  /\ r.total = Cardinality(under)
            /\ r.completed =
                  Cardinality({ i \in under :
                      ~ProgPaceOf(progRes.snapshot.parts[i]).isNull })
            /\ r.completed <= r.total
            /\ r.percent.den > 0
            /\ r.percent.num * r.total = r.completed * r.percent.den
            /\ r.total = 0 => r.percent.num = 0
            /\ Cardinality(under) = Len(progRes.snapshot.parts) =>
                  r.completed = whole.onTime + whole.delayed + whole.early

\* The root stage of a project with a part two levels down, two of three
\* parts completed.
C25_Witness ==
    /\ progRes.op = "computeStageProgress"
    /\ progRes.stageId = "root"
    /\ \E i \in 1..Len(progRes.snapshot.parts) : progRes.snapshot.parts[i].stageId = "b"
    /\ progRes.stage.total = 3
    /\ progRes.stage.completed = 2

----------------------------------------------------------------------------
(* Claims about the stage tree *)

\* The parent of a stage id among the stages, or NoStage.
TreeParentOf(stages, id) ==
    IF \E i \in 1..Len(stages) : stages[i].id = id /\ stages[i].parentStageId \in StageIdsOf(stages)
    THEN (CHOOSE st \in { stages[i] : i \in 1..Len(stages) } : st.id = id).parentStageId
    ELSE NoStage

\* The ancestors of a stage: its parent, the parent's parent, and so on, for
\* as many steps as there are stages.
RECURSIVE AncestorsWithin(_, _, _)
AncestorsWithin(stages, id, steps) ==
    IF steps = 0 \/ TreeParentOf(stages, id) = NoStage THEN {}
    ELSE {TreeParentOf(stages, id)}
         \cup AncestorsWithin(stages, TreeParentOf(stages, id), steps - 1)

AncestorsOf(stages, id) == AncestorsWithin(stages, id, Len(stages))

OnCycle(stages, id) == id \in AncestorsOf(stages, id)

HasCycle(stages) == \E id \in StageIdsOf(stages) : OnCycle(stages, id)

\* No part on the stage or on a stage that has it among its ancestors.
EmptySubtree(snapshot, id) ==
    \A i \in 1..Len(snapshot.parts) :
        LET sid == snapshot.parts[i].stageId
        IN  sid # id /\ id \notin AncestorsOf(snapshot.stages, sid)

\* C26: validateProjectSnapshot throws InvariantViolation, with the id of an
\* offending stage, whenever the parent relation of the stages has a cycle
\* or some stage has no part in its subtree, and returns normally for every
\* acyclic tree in which each stage has a part in its subtree.
C26_ThrowsOnCycleOrEmptySubtree ==
    treeRes.op = "validateProjectSnapshot" =>
        LET snapshot == treeRes.snapshot
            stages   == snapshot.stages
            cyclic   == HasCycle(stages)
            empty    == \E id \in StageIdsOf(stages) : EmptySubtree(snapshot, id)
            r        == treeRes.result
        IN  /\ r.outcome = "InvariantViolation" <=> (cyclic \/ empty)
            /\ r.outcome = "ok" <=> ~(cyclic \/ empty)
            /\ cyclic =>
                  /\ r.stageId \in StageIdsOf(stages)
                  /\ \E id \in {r.stageId} \cup AncestorsOf(stages, r.stageId) :
                        OnCycle(stages, id)
            /\ (~cyclic /\ empty) =>
                  /\ r.stageId \in StageIdsOf(stages)
                  /\ EmptySubtree(snapshot, r.stageId)

\* A cycle of three stages, each with a part, is refused.
C26_Witness ==
    /\ treeRes.op = "validateProjectSnapshot"
    /\ Len(treeRes.snapshot.stages) = 3
    /\ \A id \in TreeStageIds : OnCycle(treeRes.snapshot.stages, id)
    /\ Len(treeRes.snapshot.parts) >= 3
    /\ treeRes.result.outcome = "InvariantViolation"

\* A chain of three stages with its only part on the deepest one is accepted.
C26_WitnessAccepted ==
    /\ treeRes.op = "validateProjectSnapshot"
    /\ Len(treeRes.snapshot.stages) = 3
    /\ Len(treeRes.snapshot.parts) = 1
    /\ \E id \in TreeStageIds : Cardinality(AncestorsOf(treeRes.snapshot.stages, id)) = 2
    /\ treeRes.result.outcome = "ok"

----------------------------------------------------------------------------
(* Claims about the calendar *)

\* The weekday (0 = Sunday) of a date of April 2025; the 16th is a Wednesday.
WeekdayOfDate(date) == (3 + (date - 20250416)) % 7

\* C27: isWorkingDay resolves in a fixed order: an override for the date
\* gives its isWorkingDay value whatever the weekday or holiday; otherwise a
\* computed holiday is non-working; otherwise the date is non-working iff
\* its weekday is in weekendDays.
C27_ResolutionOrder ==
    calRes.op = "isWorkingDay" =>
        LET cal == calRes.calendar
        IN  calRes.working =
              (IF \E i \in 1..Len(cal.overrides) : cal.overrides[i].date = calRes.date
               THEN \E i \in 1..Len(cal.overrides) :
                        cal.overrides[i].date = calRes.date /\ cal.overrides[i].isWorkingDay
               ELSE IF calRes.date \in AprilHolidays THEN FALSE
               ELSE WeekdayOfDate(calRes.date) \notin cal.weekendDays)

\* C28: for every start date, working or not, every n >= 0 and every
\* calendar, diffWorkingDays(start, addWorkingDays(start, n, cal), cal) = n.
C28_RoundTrip ==
    calRes.op = "roundTrip" => calRes.diff = calRes.days

\* The working days d of the calendar with lo <= d < hi.
WorkingDaysFrom(lo, hi, cal) ==
    { k \in DayOf(lo)..(DayOf(hi) - 1) : isWorkingDay(toKeyUTC(k), cal) }

\* C29: diffWorkingDays(start, endExclusive, cal) is the number of working
\* days d with start <= d < endExclusive when endExclusive is later, minus
\* the number of working days d with endExclusive <= d < start when it is
\* earlier, 0 when the dates are equal; so diffWorkingDays(a, b) =
\* -diffWorkingDays(b, a).
C29_DiffIsSignAware ==
    calRes.op = "diffWorkingDays" =>
        LET start == calRes.date
            end   == calRes.other
            cal   == calRes.calendar
        IN  /\ calRes.diff =
                  (IF start = end THEN 0
                   ELSE IF start < end THEN Cardinality(WorkingDaysFrom(start, end, cal))
                   ELSE 0 - Cardinality(WorkingDaysFrom(end, start, cal)))
            /\ calRes.diff = 0 - diffWorkingDays(end, start, cal)

\* A backward count across Good Friday, the weekend and Easter Monday.
C29_Witness ==
    /\ calRes.op = "diffWorkingDays"
    /\ calRes.date = 20250422
    /\ calRes.other = 20250417
    /\ calRes.diff = 0 - 1

\* The working days d of the calendar with lo < d <= hi.
WorkingDaysAfter(lo, hi, cal) ==
    { k \in (DayOf(lo) + 1)..DayOf(hi) : isWorkingDay(toKeyUTC(k), cal) }

\* C30: addWorkingDays(start, 0, cal) returns start, working day or not; for
\* n > 0 it returns the n-th working day after start (a working day, with
\* exactly n working days in (start, result]); a negative n is rejected
\* with an error and no date is returned.
C30_AddWorkingDays ==
    calRes.op = "addWorkingDays" =>
        LET r == calRes.added
        IN  /\ calRes.days < 0 => r.outcome = "Error" /\ r.date = NoDateKey
            /\ calRes.days = 0 => r.outcome = "ok" /\ r.date = calRes.date
            /\ calRes.days > 0 =>
                  /\ r.outcome = "ok"
                  /\ r.date > calRes.date
                  /\ isWorkingDay(r.date, calRes.calendar)
                  /\ Cardinality(WorkingDaysAfter(calRes.date, r.date, calRes.calendar))
                        = calRes.days

\* Two working days after the Thursday before Easter: the next Wednesday.
C30_Witness ==
    /\ calRes.op = "addWorkingDays"
    /\ calRes.date = 20250417
    /\ calRes.days = 2
    /\ calRes.added.date = 20250423

\* A non-working start is returned unchanged for n = 0.
C30_WitnessZero ==
    /\ calRes.op = "addWorkingDays"
    /\ calRes.days = 0
    /\ ~isWorkingDay(calRes.date, calRes.calendar)
    /\ calRes.added.date = calRes.date

\* A key names a date when Date.UTC does not roll it over.
IsDateKey(date) ==
    LET p == parseDateKey(date)
    IN  toKeyUTC(DateUTC(p.y, p.m, p.d)) = date

\* The keys a call was given.
KeysOfCall(call) ==
    IF call.op \in {"diffWorkingDays", "diffWorkingDays(malformed)"}
    THEN {call.date, call.other}
    ELSE {call.date}

\* C31: a calendar operation (isWorkingDay, addWorkingDays, diffWorkingDays,
\* nextWorkingDay) given a malformed DateKey fails fast with a validation
\* error: it has thrown, it returns no result computed from the key, and it
\* is not still looping.
C31_MalformedKeyFailsFast ==
    (calRes.op # "none" /\ \E k \in KeysOfCall(calRes) : ~IsDateKey(k))
        => calRes.thrown # "none"

----------------------------------------------------------------------------
(* Claims about append, compact and hasCommand of the file store, step by  *)
(* step                                                                     *)

\* C32: compaction never loses an append to the same project that is in
\* flight at the same time: once both calls have returned, every appended
\* event with a timestamp greater than the snapshot's lastEventTimestamp is
\* returned by loadByProject.
C32_CompactKeepsInFlightAppend ==
    (app.pc = "done" /\ app.overlapped /\ comp.pc = "done" /\ comp.outcome = "ok")
        => \A i \in 1..Len(app.events) :
              app.events[i].timestamp > comp.snapshot.lastEventTimestamp
                  => \E j \in 1..Len(FileLoadByProject(StepProject)) :
                        FileLoadByProject(StepProject)[j] = app.events[i]

C34_WitnessCrash ==
    /\ comp.pc = "crashed"
    /\ tmpFile = [exists |-> TRUE, json |-> PartialJson]
    /\ ~comp.truncated

\* C35: once hasCommand(projectId, c) has returned true, it returns true in
\* every later call, after further appends and after a compact of the
\* project.
C35_HasCommandStaysTrue ==
    hc.commandId \in hc.seen => hc.found

----------------------------------------------------------------------------
(* Claims about mutating requests *)

\* The lifecycle states an event of the type may be appended from.
AllowedFrom(type) ==
    CASE type = "PartApproved"  -> VALID_APPROVE
      [] type = "PartCompleted" -> VALID_COMPLETE
      [] type = "PartSnoozed"   -> VALID_SNOOZE
      [] type = "PartReopened"  -> VALID_REOPEN

\* C33: under every interleaving of concurrent mutating requests on one
\* project the stored log is a legal lifecycle history: each stored event of
\* a part was an allowed transition from the lifecycle state replayed from
\* the events stored before it (two concurrent approve requests store at
\* most one PartApproved).
C33_StoredLogIsLegalHistory ==
    LET stored == StoredEvents(RepoProject)
    IN  \A i \in 1..Len(stored) :
            Includes(AllowedFrom(stored[i].type),
                     projectLifecycleState(SubSeq(stored, 1, i - 1), stored[i].partId))

C36_WitnessBadInput ==
    /\ \E r \in Requests : req[r].status = 400 /\ req[r].pc = "done"
    /\ StoredEvents(RepoProject) # <<>>

----------------------------------------------------------------------------
(* Claims about the fold of the display projection *)

\* The events without the PartSnoozed events of the part.
WithoutSnoozes(events, p) ==
    SelectSeq(events, LAMBDA e : ~(e.partId = p /\ e.type = "PartSnoozed"))

\* C37: a PartApproved or PartReopened event clears any earlier snooze: for a
\* part whose latest snooze is followed (timestamp order, ties by sequence)
\* by a PartApproved or PartReopened event, or that has a decision and no
\* snooze, projectPartState is never Snoozed, it is the state the events
\* give without the part's snoozes, and after a reopen it is one of NotDue,
\* Due and Overdue.
C37_DecisionClearsSnooze ==
    projRes.op = "project" =>
        \A p \in Parts :
            (/\ PositionsOfTypes(projRes.events, p, Decisions) # {}
             /\ ~SnoozeStands(projRes.events, p)) =>
                /\ projRes.states[p] # "Snoozed"
                /\ projRes.states[p] =
                       projectPartState(WithoutSnoozes(projRes.events, p), p, EndDateOf(p),
                                        projRes.now, projRes.timezone,
                                        defaultSwedishProjectCalendar(<<>>))
                /\ ~LatestDecisionIsApproval(projRes.events, p)
                       => projRes.states[p] \in {"NotDue", "Due", "Overdue"}

\* A part snoozed to 2025-04-24 and then reopened, read after its endDate
\* cutoff and before the snooze would have run out.
C37_Witness ==
    /\ projRes.op = "project"
    /\ projRes.events = << ProjEv("PartSnoozed", "p1", 1000, 20250424),
                           ProjEv("PartReopened", "p1", 1000, NoDateKey) >>
    /\ projRes.now >= CutoffInstant(20250417, projRes.timezone)
    /\ projRes.now < CutoffInstant(20250424, projRes.timezone)
    /\ projRes.states["p1"] \in {"Due", "Overdue"}

\* C38: the display projection agrees with the lifecycle state machine: on
\* every event stream built from the empty stream by successful calls of
\* approvePart, completePart, snoozePart and reopenPart, with any
\* timestamps, projectPartState is Approved iff getPartLifecycleState is
\* Approved.
C38_ProjectionAgreesWithLifecycle ==
    (projRes.op = "project" /\ BuiltByTransitions(projRes.events)) =>
        \A p \in Parts :
            (projRes.states[p] = "Approved")
                <=> (getPartLifecycleState(projRes.events, p) = "Approved")

----------------------------------------------------------------------------
(* The display state as time passes *)

\* The order a part that is not approved goes through.
StateRank(state) ==
    CASE state = "NotDue"  -> 0
      [] state = "Snoozed" -> 1
      [] state = "Due"     -> 2
      [] state = "Overdue" -> 3
      [] OTHER             -> 4

\* C39: with everything but now fixed, the display state never moves
\* backwards as now increases: a part that is not approved is at the later
\* instant in the same state or in one further on in the order NotDue,
\* Snoozed, Due, Overdue, and an approved part is Approved at both instants.
C39_StateNeverMovesBack ==
    stateRes.op = "computePartState(later)" =>
        IF stateRes.inputs.approved
        THEN stateRes.state = "Approved" /\ stateRes.laterState = "Approved"
        ELSE StateRank(stateRes.state) <= StateRank(stateRes.laterState)

----------------------------------------------------------------------------
(* The range of projectLifecycleState *)

\* C40: projectLifecycleState never returns Blocked; it returns Planned
\* exactly when the list holds no event of the part, and with at least one
\* event of the part it returns Active, Completed or Approved.
C40_PlannedIffNoEvent ==
    lifeRes.op = "getPartLifecycleState" =>
        /\ lifeRes.state # "Blocked"
        /\ (lifeRes.state = "Planned")
               <=> (PositionsOf(lifeRes.before, lifeRes.partId) = {})
        /\ (PositionsOf(lifeRes.before, lifeRes.partId) # {})
               => lifeRes.state \in {"Active", "Completed", "Approved"}

\* The state was asked of a part whose events are snoozes alone, in a list
\* that holds events of another part too.
C40_Witness ==
    /\ lifeRes.op = "getPartLifecycleState"
    /\ PositionsOf(lifeRes.before, lifeRes.partId) # {}
    /\ \A i \in PositionsOf(lifeRes.before, lifeRes.partId) :
          lifeRes.before[i].type = "PartSnoozed"
    /\ \E k \in 1..Len(lifeRes.before) : lifeRes.before[k].partId # lifeRes.partId
    /\ lifeRes.state = "Active"

\* The state was asked of a part with no event, in a list that is not empty.
C40_WitnessPlanned ==
    /\ lifeRes.op = "getPartLifecycleState"
    /\ PositionsOf(lifeRes.before, lifeRes.partId) = {}
    /\ lifeRes.before # <<>>
    /\ lifeRes.state = "Planned"

====
